---- MODULE Spec2Model ----
(***************************************************************************)
(* Guitar AI Coach front-end: the HomePage component (pages/index.tsx,     *)
(* with the Analyze / Generate Plan handlers of its feature-complete       *)
(* snapshot), as a state machine over the browser's event loop.            *)
(*                                                                         *)
(* One action is one browser task: an event handler or promise             *)
(* continuation run to its next await, together with the React render and  *)
(* effect cleanup its state updates cause (React batches the updates of    *)
(* one task into one render).  A closure reads the React state of the      *)
(* render that created it; refs are shared mutable cells.                  *)
(*                                                                         *)
(* Fixed-point conventions: clock values are in ticks of MsPerTick ms,     *)
(* probed durations are in ms, durationSeconds and the values inside       *)
(* duration messages are in tenths of a second, formatMB is in hundredths  *)
(* of a MB.                                                                *)
(***************************************************************************)
EXTENDS Integers, Sequences, FiniteSets, TLC

(* ------------------------------------------------------------------ *)
(* Program constants                                                   *)
(* ------------------------------------------------------------------ *)
MIN_SECONDS == 15
MAX_SECONDS == 90
MAX_MB == 10
BytesPerMB == 1024 * 1024
SafetyTimeoutMs == 1500
TimerPeriodMs == 250

ACCEPT_EXTENSIONS ==
    { <<".", "w", "a", "v">>, <<".", "m", "p", "3">>, <<".", "m", "4", "a">> }
ACCEPT_MIME_PREFIX == <<"a", "u", "d", "i", "o", "/">>

(* ------------------------------------------------------------------ *)
(* Bounds of the model                                                 *)
(* ------------------------------------------------------------------ *)
MaxFiles == 1        \* files selected in one run of the page
MaxStarts == 1       \* Start Recording clicks that reach getUserMedia
MaxAnalyze == 2      \* /analyze requests sent
MaxCoach == 1        \* /coach requests sent
MaxUploads == 2      \* files selected, where the upload path alone is explored
MaxRecStarts == 2    \* getUserMedia calls, where the recorder alone is explored
MaxGumCalls == 3     \* getUserMedia calls, where starting alone is explored
MaxStopEvents == 2   \* stop events a recorder delivers for one stop()
MaxDrills == 4      \* drills in a plan payload (one more than the report shows)
MaxEvidence == 2    \* evidence items in a plan payload
MaxCopies == 2      \* clicks on Copy report
MsPerTick == 2 * TimerPeriodMs   \* clock resolution: two sampling periods

(* ------------------------------------------------------------------ *)
(* Strings as sequences of characters                                  *)
(* ------------------------------------------------------------------ *)
ToLowerChar(c) ==
    CASE c = "W" -> "w" [] c = "A" -> "a" [] c = "V" -> "v"
      [] c = "M" -> "m" [] c = "P" -> "p" [] c = "T" -> "t"
      [] c = "X" -> "x" [] OTHER -> c

ToLowerCase(s) == [i \in 1..Len(s) |-> ToLowerChar(s[i])]

EndsWith(s, suffix) ==
    /\ Len(suffix) <= Len(s)
    /\ SubSeq(s, Len(s) - Len(suffix) + 1, Len(s)) = suffix

StartsWith(s, prefix) ==
    /\ Len(prefix) <= Len(s)
    /\ SubSeq(s, 1, Len(prefix)) = prefix

Includes(s, sub) ==
    \E i \in 1..(Len(s) - Len(sub) + 1) : SubSeq(s, i, i + Len(sub) - 1) = sub

(* ------------------------------------------------------------------ *)
(* Files.  A file is [id, name, type, size, meta]: id numbers the      *)
(* acquisition, name/type/size are the File's fields, and meta is what *)
(* the <audio> element reports when the blob's metadata is loaded.     *)
(* ------------------------------------------------------------------ *)
NoFile == [id |-> 0, name |-> <<>>, type |-> <<>>, size |-> 0,
           meta |-> [kind |-> "none", ms |-> 0]]

Names ==
    { <<"a", ".", "w", "a", "v">>, <<"a", ".", "W", "A", "V">>,
      <<"a", ".", "m", "p", "3">>, <<"a", ".", "M", "4", "a">>,
      <<"a", ".", "t", "x", "t">>, <<"w", "a", "v">>,
      <<"a", ".", "w", "a", "v", ".", "t", "x", "t">> }

MimeTypes ==
    { <<>>, <<"a", "u", "d", "i", "o", "/", "w", "a", "v">>,
      <<"a", "u", "d", "i", "o", "/", "x", "-", "m", "4", "a">>,
      <<"v", "i", "d", "e", "o", "/", "m", "p", "4">>,
      <<"a", "u", "d", "i", "o">>,
      <<"t", "e", "x", "t", "/", "a", "u", "d", "i", "o", "/">> }

Sizes == { 0, 1000, 10485760, 10485761, 10493625, 10616832, 11000000, 15728640 }

Metas ==
    { [kind |-> "error", ms |-> 0], [kind |-> "nan", ms |-> 0],
      [kind |-> "inf", ms |-> 0] }
    \cup { [kind |-> "ok", ms |-> d] :
             d \in { -1000, 0, 1, 14949, 14950, 15000, 45020, 89950, 90000,
                     90049, 90050, 120000 } }

AllFiles == [name : Names, type : MimeTypes, size : Sizes, meta : Metas]

GoodName == <<"a", ".", "w", "a", "v">>
GoodType == <<"a", "u", "d", "i", "o", "/", "w", "a", "v">>
CoreFiles ==
    { [name |-> GoodName, type |-> GoodType, size |-> 1000,
       meta |-> [kind |-> "ok", ms |-> 45020]],
      [name |-> GoodName, type |-> GoodType, size |-> 1000,
       meta |-> [kind |-> "ok", ms |-> 14949]],
      [name |-> <<"a", ".", "t", "x", "t">>, type |-> <<>>, size |-> 1000,
       meta |-> [kind |-> "ok", ms |-> 45020]] }

(* ------------------------------------------------------------------ *)
(* Pure helpers of index.tsx                                           *)
(* ------------------------------------------------------------------ *)
MimeWebm == <<"a", "u", "d", "i", "o", "/", "w", "e", "b", "m">>
\* pickPreferredMimeType() in a browser that records webm
RecorderMimeTypes == { MimeWebm }

mimeTypeToExtension(mime) ==
    IF Includes(mime, <<"w", "e", "b", "m">>) THEN <<"w", "e", "b", "m">>
    ELSE IF Includes(mime, <<"m", "p", "4">>) THEN <<"m", "p", "4">>
    ELSE IF Includes(mime, <<"m", "p", "e", "g">>) \/ Includes(mime, <<"m", "p", "3">>)
         THEN <<"m", "p", "3">>
    ELSE IF Includes(mime, <<"w", "a", "v">>) THEN <<"w", "a", "v">>
    ELSE <<"a", "u", "d", "i", "o">>

\* (bytes / 2^20).toFixed(2): the nearest hundredth, the larger one on a tie.
\* The quotient by a power of two is exact in a double, so this is exact.
formatMBTruncating(bytes) == (bytes * 100) \div BytesPerMB
formatMB(bytes) == (bytes * 100 + BytesPerMB \div 2) \div BytesPerMB

isLikelyAudioFileNoLower(f) ==
    \/ \E ext \in ACCEPT_EXTENSIONS : EndsWith(f.name, ext)
    \/ (IF f.type # <<>> THEN StartsWith(f.type, ACCEPT_MIME_PREFIX) ELSE FALSE)
isLikelyAudioFile(f) ==
    LET name == ToLowerCase(f.name)
        hasAllowedExt == \E ext \in ACCEPT_EXTENSIONS : EndsWith(name, ext)
        hasAudioMime == IF f.type # <<>> THEN StartsWith(f.type, ACCEPT_MIME_PREFIX)
                        ELSE FALSE
    IN  hasAllowedExt \/ hasAudioMime

\* Math.round(dur * 10) / 10 for dur = ms / 1000, in tenths of a second.
NormalizeTruncating(ms) == ms \div 100
Normalize(ms) == (ms + 50) \div 100

(* ------------------------------------------------------------------ *)
(* State                                                               *)
(* ------------------------------------------------------------------ *)
VARIABLES
    \* React state of HomePage
    file, status, error, durationSeconds, mode, recordingState, elapsedSeconds,
    previewUrl, isAnalyzing, analyzeError, analyzeResult, ruleRecs, plan,
    isCoaching, coachError,
    \* refs of HomePage and the media objects of the browser they point to
    media,
    \* browser and network
    now, mounted, caps, catalog, responses, limits, uploads, liveUrls, probes, gumPending, capturedPreview,
    analyzeReqs, coachReqs, lastAnalyzeOk,
    \* allocation counters
    nextFile, nextStart, nextAnalyze, nextCoach,
    \* Copy report: React state, the plans /coach may answer, the clipboard
    \* and the document
    copyStatus, copyError, payloads, clipboardApi, clipboard, copyReqs, copyTimers,
    textareas, copyLog, nextCopy

reactVars == <<file, status, error, durationSeconds, mode, recordingState,
               elapsedSeconds, previewUrl>>
netVars == <<isAnalyzing, analyzeError, analyzeResult, ruleRecs, plan, isCoaching,
             coachError, analyzeReqs, coachReqs, lastAnalyzeOk, nextAnalyze,
             nextCoach>>
envVars == <<now, mounted, caps, catalog, responses, limits, uploads, liveUrls, probes, gumPending, capturedPreview,
             nextFile, nextStart>>
copyEnv == <<payloads, clipboardApi, clipboard, copyReqs, copyTimers, textareas, copyLog,
             nextCopy>>
copyVars == <<copyStatus, copyError, copyEnv>>
vars == <<reactVars, netVars, media, envVars, copyVars>>

Max(a, b) == IF a > b THEN a ELSE b
Starts == 1..Max(MaxStarts, Max(MaxRecStarts, MaxGumCalls))
NullNum == -1
NoUrl == [kind |-> "none", file |-> 0]
ProbeUrl(f) == [kind |-> "probe", file |-> f.id]
PreviewUrlOf(f) == [kind |-> "preview", file |-> f.id]
NoError == [msg |-> "", val |-> 0]
Err(m) == [msg |-> m, val |-> 0]
ErrVal(m, v) == [msg |-> m, val |-> v]
NoMetrics == [id |-> 0, file |-> 0]
NoPlan == [id |-> 0, metrics |-> NoMetrics, payload |-> 0]
\* Absent stands for undefined; a message is [http, text]: the text alone
\* when http is 0, and "HTTP <http>: <text>" otherwise.
Absent == "undefined"
Truthy(v) == v \notin {Absent, ""}
Lit(text) == [http |-> 0, text |-> text]
HttpMsg(st, text) == [http |-> st, text |-> text]
NoDisplayError == [user_message |-> Lit(""), error_code |-> Absent]

Ticks(ms) == ms \div MsPerTick
\* Math.floor((Date.now() - recordingStartMsRef.current) / 1000)
\* (a ref of 0 leaves Date.now() itself, far above any bound of the page)
EpochSeconds == 1000 * 1000 * 1000
ElapsedFloor(m) ==
    IF m.recordingStartMsRef = 0 THEN EpochSeconds
    ELSE ((now - m.recordingStartMsRef) * MsPerTick) \div 1000
Min(a, b) == IF a < b THEN a ELSE b

(* ------------------------------------------------------------------ *)
(* Refs and the browser's media objects.                               *)
(* Stream k, recorder k, interval k, auto-stop timeout k and meter k   *)
(* are the objects created by the k-th getUserMedia call; safety       *)
(* timeout k is the one armed when recorder k is stopped.  A ref holds *)
(* the number of the object it points to, 0 for null.                  *)
(* ------------------------------------------------------------------ *)
InitMedia ==
    [ mediaRecorderRef |-> 0, streamRef |-> 0, chunksRef |-> 0,
      timerIntervalRef |-> 0, autoStopTimeoutRef |-> 0,
      stopSafetyTimeoutRef |-> 0, stopHandledRef |-> FALSE,
      recordingStartMsRef |-> 0, rafIdRef |-> 0,
      streams |-> {},                         \* streams with live tracks
      recState |-> [k \in Starts |-> "none"], \* MediaRecorder.state
      handlers |-> {},                        \* recorders with ondataavailable/onerror/onstop set
      dataPending |-> {},                     \* recorders with a dataavailable event queued
      stopEvents |-> [k \in Starts |-> 0],    \* stop events queued per recorder
      intervals |-> {},                       \* live setInterval timers
      timeouts |-> {},                        \* armed setTimeout timers [kind, id, due]
      meters |-> {},                          \* live AudioContext + animation-frame loops
      onstopRuns |-> [k \in Starts |-> 0] ]   \* history: runs of recorder k's onstop past its guard

stopTimer(m) ==
    IF m.timerIntervalRef # 0
    THEN [m EXCEPT !.intervals = @ \ {m.timerIntervalRef}, !.timerIntervalRef = 0]
    ELSE m

ClearTimeoutOf(m, kind, id) == {t \in m.timeouts : ~(t.kind = kind /\ t.id = id)}

clearAutoStopTimeout(m) ==
    IF m.autoStopTimeoutRef # 0
    THEN [m EXCEPT !.timeouts = ClearTimeoutOf(m, "auto", m.autoStopTimeoutRef),
                   !.autoStopTimeoutRef = 0]
    ELSE m

clearStopSafetyTimeout(m) ==
    IF m.stopSafetyTimeoutRef # 0
    THEN [m EXCEPT !.timeouts = ClearTimeoutOf(m, "safety", m.stopSafetyTimeoutRef),
                   !.stopSafetyTimeoutRef = 0]
    ELSE m

stopLevelMonitoring(m) ==
    IF m.rafIdRef # 0
    THEN [m EXCEPT !.meters = @ \ {m.rafIdRef}, !.rafIdRef = 0]
    ELSE m

stopStream(m) ==
    IF m.streamRef # 0
    THEN [m EXCEPT !.streams = @ \ {m.streamRef}, !.streamRef = 0]
    ELSE m

\* MediaRecorder.stop() on recorder k: it becomes inactive and the browser
\* queues a dataavailable event followed by n stop events.
RecorderStop(m, k, n) ==
    [m EXCEPT !.recState[k] = "inactive",
              !.dataPending = @ \cup {k},
              !.stopEvents[k] = n]

\* The recorder's three handlers are set to null and, unless it is inactive,
\* it is stopped; the events of a recorder without handlers reach nothing.
DetachAndStop(m) ==
    LET k == m.mediaRecorderRef
    IN  IF k = 0 THEN m
        ELSE [m EXCEPT !.handlers = @ \ {k},
                       !.dataPending = @ \ {k},
                       !.stopEvents[k] = 0,
                       !.recState[k] = "inactive"]

\* The refs part of resetRecording(); its setElapsedSeconds(0) and
\* setRecordingState("idle") are written by the actions that call it.
resetRecording(m) ==
    LET m1 == stopStream(stopLevelMonitoring(clearStopSafetyTimeout(
                  clearAutoStopTimeout(stopTimer(m)))))
        m2 == [m1 EXCEPT !.chunksRef = 0, !.recordingStartMsRef = 0,
                         !.stopHandledRef = FALSE]
    IN  [DetachAndStop(m2) EXCEPT !.mediaRecorderRef = 0]

\* The cleanup of the useEffect keyed on previewUrl (its URL.revokeObjectURL is
\* in Commit).
EffectCleanup(m) ==
    LET m1 == stopStream(stopLevelMonitoring(clearStopSafetyTimeout(
                  clearAutoStopTimeout(stopTimer(m)))))
        m2 == [m1 EXCEPT !.chunksRef = 0]
    IN  IF m2.mediaRecorderRef # 0 /\ m2.recState[m2.mediaRecorderRef] # "inactive"
        THEN DetachAndStop(m2)
        ELSE m2

\* The render that follows a task: when previewUrl differs from the previous
\* render's, React runs the previous effect's cleanup, whose closure holds the
\* previous previewUrl.
CommitKeepingUrl(m, urls, p) ==
    /\ previewUrl' = p
    /\ media' = IF p # previewUrl THEN EffectCleanup(m) ELSE m
    /\ liveUrls' = urls
Commit(m, urls, p) ==
    /\ previewUrl' = p
    /\ media' = IF p # previewUrl THEN EffectCleanup(m) ELSE m
    /\ liveUrls' = IF p # previewUrl THEN urls \ {previewUrl} ELSE urls

(* ------------------------------------------------------------------ *)
(* validateAndSetFile                                                  *)
(* ------------------------------------------------------------------ *)
MaxBytes == MAX_MB * BytesPerMB

\* Steps 1 and 2, which run before the first await: the error they end with,
\* or NoError when the file goes on to the duration probe.
TypeAndSizeCheck(sel) ==
    IF ~isLikelyAudioFile(sel) THEN Err("Invalid file type")
    ELSE IF sel.size > MaxBytes THEN ErrVal("File too large", formatMB(sel.size))
    ELSE NoError

\* Steps 3 and 4 without the minimum-duration branch.
DurationCheckNoMinimum(sel) ==
    LET dur == sel.meta
        normalized == Normalize(dur.ms)
    IN  IF dur.kind # "ok" \/ dur.ms <= 0
        THEN [ok |-> FALSE, error |-> Err("Could not read audio duration"), dur |-> NullNum]
        ELSE IF normalized > MAX_SECONDS * 10
        THEN [ok |-> FALSE, error |-> ErrVal("File too long", normalized), dur |-> NullNum]
        ELSE [ok |-> TRUE, error |-> NoError, dur |-> normalized]

\* Steps 3 and 4, which run when the probe settles: [ok, error, dur].
DurationCheck(sel) ==
    LET dur == sel.meta
        normalized == Normalize(dur.ms)
    IN  IF dur.kind = "error"
        THEN [ok |-> FALSE, error |-> Err("Could not read audio duration"), dur |-> NullNum]
        ELSE IF dur.kind \in {"nan", "inf"} \/ dur.ms <= 0
        THEN [ok |-> FALSE, error |-> Err("Could not read audio duration"), dur |-> NullNum]
        ELSE IF normalized < MIN_SECONDS * 10
        THEN [ok |-> FALSE, error |-> ErrVal("File too short", normalized), dur |-> NullNum]
        ELSE IF normalized > MAX_SECONDS * 10
        THEN [ok |-> FALSE, error |-> ErrVal("File too long", normalized), dur |-> NullNum]
        ELSE [ok |-> TRUE, error |-> NoError, dur |-> normalized]

UNCHANGED_net == UNCHANGED netVars
UNCHANGED_starts ==
    UNCHANGED <<nextStart, gumPending, capturedPreview, mounted, caps, catalog, responses, limits,
                copyEnv>>
UNCHANGED_env == UNCHANGED_starts /\ UNCHANGED <<now, copyStatus, copyError>>
UNCHANGED_alloc == UNCHANGED_env /\ UNCHANGED uploads

\* onFileChange: the file input is rendered in upload mode and disabled while
\* recording.
SelectFile ==
    /\ mounted
    /\ mode = "upload"
    /\ recordingState # "recording"
    /\ uploads < limits.files
    /\ uploads' = uploads + 1
    /\ \E f \in catalog :
         LET sel == [id |-> nextFile, name |-> f.name, type |-> f.type,
                     size |-> f.size, meta |-> f.meta]
             early == TypeAndSizeCheck(sel)
         IN  /\ file' = NoFile
             /\ durationSeconds' = NullNum
             /\ IF early # NoError
                THEN /\ status' = "invalid"
                     /\ error' = early
                     /\ UNCHANGED <<probes, liveUrls>>
                ELSE /\ status' = "validating"
                     /\ error' = NoError
                     /\ probes' = probes \cup
                            {[file |-> sel, preview |-> previewUrl, origin |-> "upload"]}
                     /\ liveUrls' = liveUrls \cup {ProbeUrl(sel)}
    /\ nextFile' = nextFile + 1
    /\ UNCHANGED <<mode, recordingState, elapsedSeconds, previewUrl, media>>
    /\ UNCHANGED_net
    /\ UNCHANGED_env

\* onstop's test measuredElapsed < MIN_SECONDS, whose outcome the pending
\* validation of a recorded file carries as its origin
StoppedEarlyNever(p) == FALSE
StoppedEarly(p) == p.origin = "recordShort"

\* The finally block of getAudioDurationSeconds, which runs on both ways out
\* of the probe (loadedmetadata, error).
RevokeProbeUrlOnLoad(urls, sel) ==
    IF sel.meta.kind = "error" THEN urls ELSE urls \ {ProbeUrl(sel)}
RevokeProbeUrl(urls, sel) == urls \ {ProbeUrl(sel)}

\* The duration probe of a pending validation settles (loadedmetadata or error):
\* getAudioDurationSeconds revokes its URL, validateAndSetFile runs to its end,
\* and so does the rest of recorder.onstop when it is the caller.
ProbeDone ==
    \E p \in probes :
      LET sel == p.file
          res == DurationCheck(sel)
          urls1 == RevokeProbeUrl(liveUrls, sel)
          \* state after validateAndSetFile returns
          vFile == IF res.ok THEN sel ELSE file
          vDur == IF res.ok THEN res.dur ELSE durationSeconds
          vUrls == IF res.ok THEN (urls1 \ {p.preview}) \cup {PreviewUrlOf(sel)} ELSE urls1
          vPrev == IF res.ok THEN PreviewUrlOf(sel) ELSE previewUrl
          vStatus == IF res.ok THEN "valid" ELSE "invalid"
          short == StoppedEarly(p)
      IN  /\ probes' = probes \ {p}
          /\ IF mounted
             THEN /\ file' = IF short THEN NoFile ELSE vFile
                  /\ durationSeconds' = IF short THEN NullNum ELSE vDur
                  /\ status' = IF short THEN "invalid" ELSE vStatus
                  /\ error' = IF short THEN Err("Recording too short") ELSE res.error
                  /\ recordingState' = IF p.origin = "upload" THEN recordingState ELSE "idle"
                  /\ Commit(media, IF short THEN vUrls \ {vPrev} ELSE vUrls,
                            IF short THEN NoUrl ELSE vPrev)
             ELSE \* the state setters (and the updater passed to
                  \* setPreviewUrl) do nothing and no effect runs again;
                  \* the revoke and the createObjectURL still happen
                  /\ liveUrls' = vUrls
                  /\ UNCHANGED <<file, durationSeconds, status, error,
                                 recordingState, previewUrl, media>>
    /\ UNCHANGED <<mode, elapsedSeconds, nextFile>>
    /\ UNCHANGED_net
    /\ UNCHANGED_alloc

\* Nothing in the page reads the clock except relative to
\* recordingStartMsRef and to the due times of its timeouts, so the clock is
\* kept relative to the latest recording's start: when the page is reset or a recording
\* starts the clock is set back to Epoch and the due times of armed timeouts move with it.
Epoch == Ticks(MsPerTick)
Rebase(m) ==
    [m EXCEPT !.timeouts = {[t EXCEPT !.due = @ - (now - Epoch)] : t \in @}]

\* reset(), from either Reset button (handleReset runs resetRecording() first,
\* which reset() repeats).
ResetState(m) ==
    /\ status' = "idle"
    /\ error' = NoError
    /\ file' = NoFile
    /\ durationSeconds' = NullNum
    /\ elapsedSeconds' = 0
    /\ recordingState' = "idle"
    /\ analyzeError' = NoDisplayError
    /\ analyzeResult' = NoMetrics
    /\ ruleRecs' = 0
    /\ isAnalyzing' = FALSE
    /\ plan' = NoPlan
    /\ coachError' = NoDisplayError
    /\ isCoaching' = FALSE
    /\ copyStatus' = "idle"
    /\ copyError' = Absent
    /\ Commit(Rebase(resetRecording(m)), liveUrls \ {previewUrl}, NoUrl)
    /\ now' = Epoch

Reset ==
    /\ mounted
    /\ ResetState(media)
    /\ UNCHANGED <<mode, probes, nextFile, uploads>>
    /\ UNCHANGED <<analyzeReqs, coachReqs, lastAnalyzeOk, nextAnalyze, nextCoach>>
    /\ UNCHANGED_starts

(* ------------------------------------------------------------------ *)
(* Mode switch and recording                                           *)
(* ------------------------------------------------------------------ *)
UNCHANGED_netReqs ==
    UNCHANGED <<analyzeReqs, coachReqs, lastAnalyzeOk, nextAnalyze, nextCoach>>

\* handleModeChange without its early return.
ModeChangeUnguarded ==
    /\ mounted
    /\ recordingState # "recording"
    /\ \E nextMode \in {"upload", "record"} : mode' = nextMode
    /\ ResetState(media)
    /\ UNCHANGED <<probes, nextFile, uploads>>
    /\ UNCHANGED_netReqs
    /\ UNCHANGED_starts

\* handleModeChange: the two mode buttons are disabled while recording and
\* the handler returns early unless recordingState is idle.
ModeChange ==
    /\ mounted
    /\ recordingState = "idle"
    /\ \E nextMode \in {"upload", "record"} : mode' = nextMode
    /\ ResetState(media)
    /\ UNCHANGED <<probes, nextFile, uploads>>
    /\ UNCHANGED_netReqs
    /\ UNCHANGED_starts

\* startRecording in a browser without getUserMedia or without MediaRecorder.
StartUnsupported ==
    /\ mounted
    /\ mode = "record"
    /\ recordingState # "recording"
    /\ ~(caps.getUserMedia /\ caps.mediaRecorder)
    /\ error' = IF ~caps.getUserMedia
                THEN Err("Microphone access is not supported in this browser.")
                ELSE Err("Recording is not supported in this browser (MediaRecorder missing).")
    /\ UNCHANGED <<file, status, durationSeconds, mode, recordingState,
                   elapsedSeconds, previewUrl, media, liveUrls, probes, nextFile>>
    /\ UNCHANGED_net
    /\ UNCHANGED_alloc

\* startRecording up to its await of getUserMedia.  The Start button is
\* rendered in record mode and disabled while recording.
StartRecording ==
    /\ mounted
    /\ mode = "record"
    /\ recordingState # "recording"
    /\ caps.getUserMedia /\ caps.mediaRecorder
    /\ nextStart <= limits.starts
    /\ UNCHANGED uploads
    /\ ResetState(media)
    /\ gumPending' = gumPending \cup {nextStart}
    /\ capturedPreview' = [capturedPreview EXCEPT ![nextStart] = previewUrl]
    /\ nextStart' = nextStart + 1
    /\ UNCHANGED <<mode, probes, nextFile, mounted, caps, catalog, responses, limits, copyEnv>>
    /\ UNCHANGED_netReqs

AutoStopDue == Epoch + Ticks(MAX_SECONDS * 1000)

\* getUserMedia resolves with stream k; startRecording runs to its end.
GumResolve ==
    \E k \in gumPending :
      LET m1 == [Rebase(media) EXCEPT !.streamRef = k,
                              !.streams = @ \cup {k},
                              !.mediaRecorderRef = k,
                              !.chunksRef = 0,
                              !.stopHandledRef = FALSE,
                              !.recordingStartMsRef = Epoch]
          m2 == [m1 EXCEPT !.rafIdRef = k, !.meters = @ \cup {k}]
          m3 == [m2 EXCEPT !.handlers = @ \cup {k}, !.recState[k] = "recording"]
          m4 == clearAutoStopTimeout(m3)
          m5 == [m4 EXCEPT !.timeouts = @ \cup {[kind |-> "auto", id |-> k, due |-> AutoStopDue]},
                           !.autoStopTimeoutRef = k,
                           !.intervals = @ \cup {k},
                           !.timerIntervalRef = k]
      IN  /\ gumPending' = gumPending \ {k}
          /\ media' = m5
          /\ now' = Epoch
          /\ elapsedSeconds' = IF mounted THEN 0 ELSE elapsedSeconds
          /\ recordingState' = IF mounted THEN "recording" ELSE recordingState
    /\ UNCHANGED <<file, status, error, durationSeconds, mode, previewUrl>>
    /\ UNCHANGED <<liveUrls, probes, capturedPreview, nextFile, nextStart, mounted, caps, catalog, responses, limits, copyVars, uploads>>
    /\ UNCHANGED_net

\* getUserMedia rejects: the catch of startRecording.
GumRejectCleanup(m) == resetRecording(m)
GumReject ==
    \E k \in gumPending :
      /\ gumPending' = gumPending \ {k}
      /\ error' = IF mounted THEN Err("Microphone permission denied or unavailable.")
                  ELSE error
      /\ media' = GumRejectCleanup(media)
      /\ elapsedSeconds' = IF mounted THEN 0 ELSE elapsedSeconds
      /\ recordingState' = IF mounted THEN "idle" ELSE recordingState
    /\ UNCHANGED <<file, status, durationSeconds, mode, previewUrl>>
    /\ UNCHANGED <<liveUrls, probes, capturedPreview, nextFile, nextStart, mounted, caps, catalog, responses, limits, copyVars, uploads, now>>
    /\ UNCHANGED_net

\* The page is unmounted: React runs the cleanup of the effect keyed on
\* previewUrl one last time.  From here on state setters do nothing and no
\* effect runs; operations already pending (a duration probe, a getUserMedia
\* request) still complete.
Unmount ==
    /\ mounted
    /\ mounted' = FALSE
    /\ media' = EffectCleanup(media)
    /\ liveUrls' = liveUrls \ {previewUrl}
    /\ UNCHANGED <<reactVars, netVars, copyVars>>
    /\ UNCHANGED <<now, caps, catalog, responses, limits, uploads, probes, gumPending,
                   capturedPreview, nextFile, nextStart>>

\* stopRecording(reason) past its guard, with n the stop events the browser
\* will deliver for this stop().
StopRecordingBody(m, reason, n) ==
    LET k == m.mediaRecorderRef
        m1 == stopLevelMonitoring(clearStopSafetyTimeout(clearAutoStopTimeout(stopTimer(m))))
        m2 == IF reason = "auto" THEN stopStream(m1) ELSE m1
        m3 == RecorderStop(m2, k, n)
    IN  [m3 EXCEPT !.timeouts = @ \cup {[kind |-> "safety", id |-> k,
                                          due |-> now + Ticks(SafetyTimeoutMs)]},
                   !.stopSafetyTimeoutRef = k]

CanStop(m) == m.mediaRecorderRef # 0 /\ m.recState[m.mediaRecorderRef] = "recording"

\* The Stop button: rendered in record mode, enabled while recording.
StopClick ==
    /\ mounted
    /\ mode = "record"
    /\ recordingState = "recording"
    /\ IF CanStop(media)
       THEN \E n \in 1..MaxStopEvents :
              /\ media' = StopRecordingBody(media, "manual", n)
              /\ recordingState' = "processing"
       ELSE UNCHANGED <<media, recordingState>>
    /\ UNCHANGED <<file, status, error, durationSeconds, mode, elapsedSeconds, previewUrl>>
    /\ UNCHANGED <<liveUrls, probes, nextFile>>
    /\ UNCHANGED_net
    /\ UNCHANGED_alloc

\* The auto-stop timeout fires: stopRecording("auto").
AutoStopFire ==
    \E t \in media.timeouts :
      /\ t.kind = "auto"
      /\ now >= t.due
      /\ LET m0 == [media EXCEPT !.timeouts = @ \ {t}]
         IN  IF CanStop(m0)
             THEN \E n \in 1..MaxStopEvents :
                    /\ media' = StopRecordingBody(m0, "auto", n)
                    /\ recordingState' = "processing"
                    /\ elapsedSeconds' = MAX_SECONDS
             ELSE /\ media' = m0
                  /\ UNCHANGED <<recordingState, elapsedSeconds>>
    /\ UNCHANGED <<file, status, error, durationSeconds, mode, previewUrl>>
    /\ UNCHANGED <<liveUrls, probes, nextFile>>
    /\ UNCHANGED_net
    /\ UNCHANGED_alloc

\* The stop-safety timeout fires.
SafetyFire ==
    \E t \in media.timeouts :
      /\ t.kind = "safety"
      /\ now >= t.due
      /\ LET m0 == [media EXCEPT !.timeouts = @ \ {t}]
         IN  IF ~m0.stopHandledRef
             THEN /\ media' = stopStream(clearAutoStopTimeout(stopTimer(m0)))
                  /\ recordingState' = "idle"
                  /\ error' = Err("Auto-stop failed")
             ELSE /\ media' = m0
                  /\ UNCHANGED <<recordingState, error>>
    /\ UNCHANGED <<file, status, durationSeconds, mode, elapsedSeconds, previewUrl>>
    /\ UNCHANGED <<liveUrls, probes, nextFile>>
    /\ UNCHANGED_net
    /\ UNCHANGED_alloc

ElapsedCapped(m) == Min(MAX_SECONDS, ElapsedFloor(m))

\* A tick of a live 250 ms interval timer.
IntervalTick ==
    /\ media.intervals # {}
    /\ media.recordingStartMsRef # 0
    /\ elapsedSeconds' = ElapsedCapped(media)
    /\ elapsedSeconds' # elapsedSeconds
    /\ UNCHANGED <<file, status, error, durationSeconds, mode, recordingState, previewUrl, media>>
    /\ UNCHANGED <<liveUrls, probes, nextFile>>
    /\ UNCHANGED_net
    /\ UNCHANGED_alloc

\* recorder.ondataavailable: the chunk is kept when it is not empty.
DataAvailable ==
    \E k \in media.dataPending, hasData \in BOOLEAN :
      /\ media' = [media EXCEPT !.dataPending = @ \ {k},
                                !.chunksRef = IF k \in media.handlers /\ hasData
                                              THEN @ + 1 ELSE @]
    /\ UNCHANGED reactVars
    /\ UNCHANGED <<liveUrls, probes, nextFile>>
    /\ UNCHANGED_net
    /\ UNCHANGED_alloc

\* recorder.onerror.
RecorderError ==
    \E k \in media.handlers :
      /\ media.recState[k] = "recording"
      /\ error' = Err("Recording failed. Please try again.")
      /\ status' = "invalid"
      /\ media' = resetRecording(media)
      /\ elapsedSeconds' = 0
      /\ recordingState' = "idle"
    /\ UNCHANGED <<file, durationSeconds, mode, previewUrl>>
    /\ UNCHANGED <<liveUrls, probes, nextFile>>
    /\ UNCHANGED_net
    /\ UNCHANGED_alloc

\* What the recorder hands over at stop: the blob's size (a recording of at
\* most 90 s stays far below the size cap) and the duration the <audio>
\* element will report for it (a number, or Infinity for a webm blob written
\* without a duration header).
RecordedBlobs ==
    { [size |-> 1000, meta |-> [kind |-> "ok", ms |-> 45020]],
      [size |-> 1000, meta |-> [kind |-> "inf", ms |-> 0]] }

\* The once-only guard of recorder.onstop.
AlreadyHandled(m) == m.stopHandledRef

\* A stop event of recorder k is dispatched: recorder.onstop up to its await
\* of validateAndSetFile, and past it when validation ends before the probe.
StopEvent ==
    \E k \in Starts :
      /\ media.stopEvents[k] > 0
      /\ k \notin media.dataPending
      /\ LET m0 == [media EXCEPT !.stopEvents[k] = @ - 1]
             m1 == stopStream(stopLevelMonitoring(clearStopSafetyTimeout(
                       clearAutoStopTimeout(stopTimer(
                           [m0 EXCEPT !.stopHandledRef = TRUE,
                                      !.onstopRuns[k] = @ + 1])))))
             m2 == [m1 EXCEPT !.chunksRef = 0, !.mediaRecorderRef = 0]
             measuredElapsed == ElapsedCapped(m0)
             short == measuredElapsed < MIN_SECONDS
         IN  IF k \notin m0.handlers \/ AlreadyHandled(m0)
             THEN /\ media' = m0
                  /\ UNCHANGED <<reactVars, liveUrls, probes, nextFile>>
             ELSE IF m1.chunksRef = 0
             THEN /\ status' = "invalid"
                  /\ error' = Err("Recording failed. No audio data was captured.")
                  /\ recordingState' = "idle"
                  /\ media' = [m1 EXCEPT !.mediaRecorderRef = 0]
                  /\ UNCHANGED <<file, durationSeconds, mode, elapsedSeconds,
                                 previewUrl, liveUrls, probes, nextFile>>
             ELSE /\ \E mime \in RecorderMimeTypes, blob \in RecordedBlobs :
                       LET recordedFile ==
                               [id |-> nextFile,
                                name |-> <<"r", "e", "c", ".">> \o mimeTypeToExtension(mime),
                                type |-> mime, size |-> blob.size, meta |-> blob.meta]
                           early == TypeAndSizeCheck(recordedFile)
                       IN  /\ elapsedSeconds' = measuredElapsed
                           /\ durationSeconds' = NullNum
                           /\ nextFile' = nextFile + 1
                           /\ UNCHANGED mode
                           /\ IF early = NoError
                              THEN /\ status' = "validating"
                                   /\ error' = NoError
                                   /\ probes' = probes \cup
                                        {[file |-> recordedFile,
                                          preview |-> capturedPreview[k],
                                          origin |-> IF short THEN "recordShort"
                                                     ELSE "record"]}
                                   /\ Commit(m2, liveUrls \cup {ProbeUrl(recordedFile)},
                                             previewUrl)
                                   /\ UNCHANGED <<file, recordingState>>
                              ELSE /\ status' = "invalid"
                                   /\ recordingState' = "idle"
                                   /\ UNCHANGED probes
                                   /\ IF short
                                      THEN /\ file' = NoFile
                                           /\ error' = Err("Recording too short")
                                           /\ Commit(m2, liveUrls \ {previewUrl}, NoUrl)
                                      ELSE /\ error' = early
                                           /\ Commit(m2, liveUrls, previewUrl)
                                           /\ UNCHANGED file
    /\ UNCHANGED_net
    /\ UNCHANGED_alloc

\* Time passes, to the next instant at which something can differ: a timeout
\* falls due or, while an interval timer or a stop event will read the clock,
\* the recording reaches the minimum.
ClockIsRead ==
    \/ media.intervals # {}
    \/ \E k \in media.handlers : media.stopEvents[k] > 0

Instants ==
    {t.due : t \in media.timeouts}
    \cup (IF media.recordingStartMsRef # 0 /\ ClockIsRead
          THEN {media.recordingStartMsRef + Ticks(MIN_SECONDS * 1000)}
          ELSE {})

AdvanceTime ==
    /\ \E t \in Instants : t > now /\ now' = t
    /\ UNCHANGED <<reactVars, netVars, media>>
    /\ UNCHANGED <<mounted, caps, catalog, responses, limits, copyVars, uploads, liveUrls, probes, gumPending,
                   capturedPreview, nextFile, nextStart>>

(* ------------------------------------------------------------------ *)
(* services/api.ts: non-success responses                              *)
(* A response is its status and its body: whether the body can be read *)
(* at all, its text, what JSON.parse makes of it and, for an object,   *)
(* its error_code, user_message and detail.                            *)
(* ------------------------------------------------------------------ *)
Statuses == {422, 500}
Codes == {Absent, "", "BAD_AUDIO"}
UserMessages == {Absent, "Clip too quiet"}
NoDetail == [kind |-> "absent", text |-> Absent, error_code |-> Absent,
             user_message |-> Absent]
Details ==
    { NoDetail,
      [kind |-> "string", text |-> "Not Found", error_code |-> Absent,
       user_message |-> Absent] }
    \cup { [kind |-> "object", text |-> "[object Object]", error_code |-> c,
            user_message |-> u] : c \in Codes, u \in UserMessages }
PlainBody(readable, raw, json) ==
    [readable |-> readable, raw |-> raw, json |-> json, error_code |-> Absent,
     user_message |-> Absent, detail |-> NoDetail]
Bodies ==
    { PlainBody(FALSE, "", "none"), PlainBody(TRUE, "", "none"),
      PlainBody(TRUE, "Internal Server Error", "none"),
      PlainBody(TRUE, "null", "null"), PlainBody(TRUE, "\"oops\"", "string") }
    \cup { [readable |-> TRUE, raw |-> "{...}", json |-> "object", error_code |-> c,
            user_message |-> u, detail |-> d] :
             c \in Codes, u \in UserMessages, d \in Details }
AllResponses == [status : Statuses, body : Bodies]

BadAudio ==
    [status |-> 422,
     body |-> [readable |-> TRUE, raw |-> "{...}", json |-> "object",
               error_code |-> Absent, user_message |-> Absent,
               detail |-> [kind |-> "object", text |-> "[object Object]",
                           error_code |-> "BAD_AUDIO",
                           user_message |-> "Clip too quiet"]]]
CoreResponses ==
    { BadAudio, [status |-> 500, body |-> PlainBody(TRUE, "Internal Server Error", "none")] }

\* handleResponse for a response that is not ok: the error it throws,
\* [message, apiError] with apiError a payload [error_code, user_message] or
\* NoPayload.  When res.text() rejects, its rejection is what the caller gets.
NoPayload == [error_code |-> Absent, user_message |-> Absent]
handleResponseTopLevelOnly(res) ==
    LET b == res.body
        payload ==
            IF b.json = "object" /\ Truthy(b.error_code)
            THEN [error_code |-> b.error_code, user_message |-> b.user_message]
            ELSE NoPayload
    IN  IF payload # NoPayload
        THEN [message |-> Lit("Request failed"), apiError |-> payload]
        ELSE [message |-> HttpMsg(res.status, b.raw), apiError |-> NoPayload]
handleResponse(res) ==
    LET b == res.body
        isObject == b.json = "object"
        payload ==
            IF isObject /\ Truthy(b.error_code)
            THEN [error_code |-> b.error_code, user_message |-> b.user_message]
            ELSE IF isObject /\ b.detail.kind = "object" /\ Truthy(b.detail.error_code)
            THEN [error_code |-> b.detail.error_code,
                  user_message |-> b.detail.user_message]
            ELSE NoPayload
    IN  IF ~b.readable
        THEN [message |-> Lit("Failed to fetch"), apiError |-> NoPayload]
        ELSE IF payload # NoPayload
        THEN [message |-> Lit(IF Truthy(payload.user_message) THEN payload.user_message
                                  ELSE "Request failed"),
              apiError |-> payload]
        ELSE IF isObject /\ b.detail.kind # "absent" /\ Truthy(b.detail.text)
        THEN [message |-> HttpMsg(res.status, b.detail.text), apiError |-> NoPayload]
        ELSE [message |-> HttpMsg(res.status, IF b.raw # "" THEN b.raw ELSE "Request failed"),
              apiError |-> NoPayload]

\* The catch of the Analyze and Generate Plan handlers: the DisplayError set.
CatchDisplay(err, fallback) ==
    IF err.apiError # NoPayload
    THEN [user_message |-> Lit(IF Truthy(err.apiError.user_message)
                                THEN err.apiError.user_message ELSE fallback),
          error_code |-> err.apiError.error_code]
    ELSE [user_message |-> err.message, error_code |-> Absent]

(* ------------------------------------------------------------------ *)
(* utils/formatReport.ts                                               *)
(* A text is the sequence of its pieces: a piece is a line break, a    *)
(* space, or a run of characters that does not end in white space.     *)
(* Numbers are held in their decimal rendering, a missing (null or     *)
(* undefined) scalar is Absent, a list is a record that says whether   *)
(* it was given.                                                       *)
(* ------------------------------------------------------------------ *)
NL == "\n"
SP == " "
Whitespace == {NL, SP}

\* `${v}` for a string or a number
Str(v) == IF v = "" THEN <<>> ELSE <<v>>
\* v ?? d
CoalesceKeeping(v, d) == v
Coalesce(v, d) == IF v = Absent THEN d ELSE v
\* v || d
OrElse(v, d) == IF Truthy(v) THEN v ELSE d

NoList == [given |-> FALSE, items |-> <<>>]
List(items) == [given |-> TRUE, items |-> items]
\* list || []
ItemsOf(list) == IF list.given THEN list.items ELSE <<>>

\* parts.join("\n")
RECURSIVE Join(_)
Join(parts) ==
    IF parts = <<>> THEN <<>>
    ELSE IF Len(parts) = 1 THEN parts[1]
    ELSE parts[1] \o <<NL>> \o Join(Tail(parts))

\* String.prototype.trimEnd
trimEndNothing(text) == text
RECURSIVE trimEnd(_)
trimEnd(text) ==
    IF text # <<>> /\ text[Len(text)] \in Whitespace
    THEN trimEnd(SubSeq(text, 1, Len(text) - 1))
    ELSE text

RECURSIVE Concat(_)
Concat(seqs) == IF seqs = <<>> THEN <<>> ELSE seqs[1] \o Concat(Tail(seqs))

\* items.forEach((i) => parts.push(`- ${i}`))
Bullets(items) == [i \in 1..Len(items) |-> <<"-", SP>> \o Str(items[i])]
NoneBullet == <<"-", SP, "(none)">>
\* `${idx + 1}`, idx + 1 being the argument
Ordinal(n) == ToString(n)

\* the parts pushed for the drill at position idx (from 1) of the slice
DrillParts(d, idx) ==
    LET minutes == Coalesce(d.duration_min, Coalesce(d.minutes, "(unspecified)"))
        tempo == d.tempo_bpm
        instr == ItemsOf(d.instructions)
        crit == ItemsOf(d.success_criteria)
    IN  << <<"Drill", SP, Ordinal(idx), ":", SP>> \o Str(OrElse(d.name, "Untitled"))
             \o <<SP, "(">> \o Str(minutes) \o <<SP, "min">>
             \o (IF tempo # Absent THEN <<",", SP>> \o Str(tempo) \o <<SP, "bpm">>
                 ELSE <<>>)
             \o <<")">>,
           <<"Instructions:">> >>
        \o (IF Len(instr) = 0 THEN <<NoneBullet>> ELSE Bullets(instr))
        \o << <<"Success criteria:">> >>
        \o (IF Len(crit) = 0 THEN <<NoneBullet>> ELSE Bullets(crit))
        \o << <<>> >>

\* Plan payloads (types.ts CoachResponse and CoachDrill, every field optional
\* as the formatter reads them).
SeqsUpTo(S, n) == UNION { [1..k -> S] : k \in 0..n }
ItemLists == {NoList, List(<<>>), List(<<"step">>)}
AllDrills ==
    [name : {Absent, "", "Alternate picking"},
     duration_min : {Absent, "5"},
     minutes : {Absent, "7"},
     tempo_bpm : {Absent, "80"},
     instructions : ItemLists,
     success_criteria : ItemLists]
NamedDrill(name) ==
    [name |-> name, duration_min |-> "5", minutes |-> Absent, tempo_bpm |-> "80",
     instructions |-> List(<<"step">>), success_criteria |-> List(<<"clean">>)]
BareDrill ==
    [name |-> "Bends", duration_min |-> Absent, minutes |-> Absent, tempo_bpm |-> Absent,
     instructions |-> NoList, success_criteria |-> NoList]
CoreDrills == {NamedDrill("Alternate picking"), NamedDrill("Legato"), BareDrill}
DrillLists ==
    {NoList} \cup { List(<<d>>) : d \in AllDrills }
    \cup { List(ds) : ds \in SeqsUpTo(CoreDrills, MaxDrills) }
EvidenceLists ==
    {NoList} \cup { List(e) : e \in SeqsUpTo({"rushed 12% of notes", "uneven volume"},
                                            MaxEvidence) }
NoSummary ==
    [given |-> FALSE, primary_issue |-> Absent, confidence |-> Absent, evidence |-> NoList]
Summaries ==
    {NoSummary}
    \cup [given : {TRUE}, primary_issue : {Absent, "timing"}, confidence : {Absent, "high"},
          evidence : EvidenceLists]
CoreSummary ==
    [given |-> TRUE, primary_issue |-> "timing", confidence |-> "high",
     evidence |-> List(<<"rushed 12% of notes">>)]
Disclaimers == {Absent, "", SP, "Not a substitute for a teacher."}
CorePlan ==
    [summary |-> CoreSummary, total_minutes |-> "15",
     drills |-> List(<<NamedDrill("Alternate picking"), BareDrill>>),
     disclaimer |-> "Not a substitute for a teacher."]
EmptyPlan ==
    [summary |-> NoSummary, total_minutes |-> Absent, drills |-> NoList,
     disclaimer |-> Absent]
AllPlans ==
    [summary : Summaries, total_minutes : {Absent, "0", "15"},
     drills : {NoList, List(<<>>), List(<<BareDrill>>)}, disclaimer : Disclaimers]
    \cup [summary : {CoreSummary}, total_minutes : {"15"}, drills : DrillLists,
          disclaimer : {Absent, "Not a substitute for a teacher."}]


\* plan.drills.slice(0, 3)
ShownDrillsAll(p) == ItemsOf(p.drills)
ShownDrills(p) ==
    LET all == ItemsOf(p.drills) IN SubSeq(all, 1, Min(3, Len(all)))

FormatParts(p, shown, withDisclaimer) ==
    LET s == p.summary
        ev == IF s.given THEN ItemsOf(s.evidence) ELSE <<>>
    IN  << <<"Guitar AI Coach Report">>,
           <<"======================", NL>>,
           <<"Summary">>,
           <<"-------">>,
           <<"Primary issue:", SP>>
             \o Str(Coalesce(IF s.given THEN s.primary_issue ELSE Absent, "N/A")),
           <<"Confidence:", SP>>
             \o Str(Coalesce(IF s.given THEN s.confidence ELSE Absent, "N/A")) >>
        \o (IF Len(ev) = 0
            THEN << <<NL, "Evidence:", NL>> \o NoneBullet >>
            ELSE << <<NL, "Evidence:">> >> \o Bullets(ev))
        \o << <<>>,
              <<"Practice Plan (Total:", SP>> \o Str(Coalesce(p.total_minutes, "N/A"))
                \o <<SP, "minutes)">>,
              <<"----------------------------------------------">> >>
        \o Concat([i \in 1..Len(shown) |-> DrillParts(shown[i], i)])
        \o (IF withDisclaimer
            THEN << <<"Disclaimer:">>, Str(p.disclaimer) >>
            ELSE <<>>)

formatCoachReport(p) ==
    trimEnd(Join(FormatParts(p, ShownDrills(p), Truthy(p.disclaimer)))) \o <<NL>>

(* ------------------------------------------------------------------ *)
(* Analyze and Generate Plan                                           *)
(* ------------------------------------------------------------------ *)
canProceed ==
    /\ status = "valid"
    /\ file # NoFile
    /\ previewUrl # NoUrl
    /\ durationSeconds # NullNum

UNCHANGED_page ==
    UNCHANGED <<reactVars, media, now, mounted, caps, catalog, responses, limits, copyVars, liveUrls, probes, gumPending,
                capturedPreview, nextFile, nextStart>>
UNCHANGED_pageOps == UNCHANGED_page /\ UNCHANGED uploads

\* The Analyze button's disabled attribute.
AnalyzeDisabled == ~canProceed

\* Analyze onClick up to its await of analyzeAudio(file).
AnalyzeClick ==
    /\ mounted
    /\ ~AnalyzeDisabled
    /\ nextAnalyze <= limits.analyze
    /\ UNCHANGED uploads
    /\ analyzeError' = NoDisplayError
    /\ analyzeResult' = NoMetrics
    /\ ruleRecs' = 0
    /\ isAnalyzing' = TRUE
    /\ analyzeReqs' = analyzeReqs \cup {[id |-> nextAnalyze, file |-> file]}
    /\ nextAnalyze' = nextAnalyze + 1
    /\ UNCHANGED <<plan, isCoaching, coachError, coachReqs, lastAnalyzeOk, nextCoach>>
    /\ UNCHANGED_page

\* /analyze answers 200: the rest of the try block and the finally.
AnalyzeOk ==
    \E r \in analyzeReqs, hasRecs \in BOOLEAN :
      LET res == [id |-> r.id, file |-> r.file.id]
      IN  /\ analyzeReqs' = analyzeReqs \ {r}
          /\ analyzeResult' = res
          /\ ruleRecs' = IF hasRecs THEN r.id ELSE 0
          /\ plan' = NoPlan
          /\ coachError' = NoDisplayError
          /\ isAnalyzing' = FALSE
          /\ lastAnalyzeOk' = res
    /\ UNCHANGED <<analyzeError, isCoaching, coachReqs, nextAnalyze, nextCoach>>
    /\ UNCHANGED_pageOps

\* /analyze fails (handleResponse throws): the catch and the finally.
AnalyzeFail ==
    \E r \in analyzeReqs, res \in responses :
      /\ analyzeReqs' = analyzeReqs \ {r}
      /\ analyzeError' = CatchDisplay(handleResponse(res), "Analyze failed")
      /\ isAnalyzing' = FALSE
    /\ UNCHANGED <<analyzeResult, ruleRecs, plan, isCoaching, coachError, coachReqs,
                   lastAnalyzeOk, nextAnalyze, nextCoach>>
    /\ UNCHANGED_pageOps

\* The Generate Plan button's disabled attribute.
CoachDisabledIgnoringResult == isCoaching \/ isAnalyzing
CoachDisabled == analyzeResult = NoMetrics \/ isCoaching \/ isAnalyzing

\* The metrics a /coach request is built from.
CoachMetrics == analyzeResult

\* Generate Plan onClick up to its await of coachFromMetrics.
CoachClick ==
    /\ mounted
    /\ ~CoachDisabled
    /\ nextCoach <= limits.coach
    /\ UNCHANGED uploads
    /\ isCoaching' = TRUE
    /\ coachError' = NoDisplayError
    /\ plan' = NoPlan
    /\ coachReqs' = coachReqs \cup {[id |-> nextCoach, metrics |-> CoachMetrics]}
    /\ nextCoach' = nextCoach + 1
    /\ UNCHANGED <<isAnalyzing, analyzeError, analyzeResult, ruleRecs, analyzeReqs,
                   lastAnalyzeOk, nextAnalyze>>
    /\ UNCHANGED_page

CoachOk ==
    \E r \in coachReqs, resp \in payloads :
      /\ coachReqs' = coachReqs \ {r}
      /\ plan' = [id |-> r.id, metrics |-> r.metrics, payload |-> resp]
      /\ isCoaching' = FALSE
    /\ UNCHANGED <<isAnalyzing, analyzeError, analyzeResult, ruleRecs, coachError,
                   analyzeReqs, lastAnalyzeOk, nextAnalyze, nextCoach>>
    /\ UNCHANGED_pageOps

CoachFail ==
    \E r \in coachReqs, res \in responses :
      /\ coachReqs' = coachReqs \ {r}
      /\ coachError' = CatchDisplay(handleResponse(res), "Coach failed")
      /\ isCoaching' = FALSE
    /\ UNCHANGED <<isAnalyzing, analyzeError, analyzeResult, ruleRecs, plan,
                   analyzeReqs, lastAnalyzeOk, nextAnalyze, nextCoach>>
    /\ UNCHANGED_pageOps

(* ------------------------------------------------------------------ *)
(* utils/copyToClipboard.ts and the Copy report button                 *)
(* ------------------------------------------------------------------ *)
NoText == <<>>
\* what navigator.clipboard.writeText rejects with, or select()/execCommand
\* throws: an Error's message (possibly empty), or Absent for a value that
\* is not an Error
ThrownMessages == {Absent, "", "Write permission denied."}
UNCHANGED_copyPage ==
    UNCHANGED <<reactVars, netVars, media, envVars, payloads, clipboardApi>>

\* new Error("Copy failed") stands in for a thrown value that is not an Error
LegacyError(thrown) == IF thrown = Absent THEN "Copy failed" ELSE thrown
\* err?.message || "Copy failed"
CopyErrorOf(message) == OrElse(message, "Copy failed")

\* The fallback of copyToClipboard, which runs to its end inside the click:
\* execCommand answers true ("copied") or false ("refused"), or select() or
\* execCommand throws ("threw").  The result is [ok, message, attached]:
\* attached tells whether the textarea is still a child of document.body.
LegacyCopyResolving(outcome, thrown) ==
    [ok |-> outcome # "threw", message |-> LegacyError(thrown),
     attached |-> outcome = "threw"]
LegacyCopy(outcome, thrown) ==
    CASE outcome = "copied" -> [ok |-> TRUE, message |-> Absent, attached |-> FALSE]
      [] outcome = "refused" -> [ok |-> FALSE, message |-> "Copy failed", attached |-> FALSE]
      [] outcome = "threw" -> [ok |-> FALSE, message |-> LegacyError(thrown),
                               attached |-> TRUE]

\* Copy report onClick.  With navigator.clipboard.writeText the handler stops
\* at its await; without it the fallback and the rest of the handler run in
\* the same task.
CopyClick ==
    /\ mounted
    /\ plan # NoPlan
    /\ nextCopy <= MaxCopies
    /\ LET text == formatCoachReport(plan.payload)
           id == nextCopy
       IN  IF clipboardApi
           THEN /\ copyError' = Absent
                /\ copyStatus' = "idle"
                /\ copyReqs' = copyReqs \cup {[id |-> id, text |-> text]}
                /\ UNCHANGED <<clipboard, copyTimers, textareas, copyLog>>
           ELSE \E outcome \in {"copied", "refused", "threw"} :
                \E thrown \in (IF outcome = "threw" THEN ThrownMessages ELSE {Absent}) :
                  LET done == LegacyCopy(outcome, thrown)
                  IN  /\ textareas' = IF done.attached THEN textareas \cup {id}
                                      ELSE textareas
                      /\ clipboard' = IF outcome = "copied" THEN text ELSE clipboard
                      /\ copyLog' = copyLog \cup {[id |-> id, written |-> outcome = "copied",
                                                   resolved |-> done.ok, legacy |-> TRUE]}
                      /\ IF done.ok
                         THEN /\ copyStatus' = "success"
                              /\ copyError' = Absent
                              /\ copyTimers' = copyTimers \cup {id}
                         ELSE /\ copyStatus' = "error"
                              /\ copyError' = CopyErrorOf(done.message)
                              /\ UNCHANGED copyTimers
                      /\ UNCHANGED copyReqs
    /\ nextCopy' = nextCopy + 1
    /\ UNCHANGED_copyPage

\* navigator.clipboard.writeText resolves: the rest of the try block.
CopyWritten ==
    \E r \in copyReqs :
      /\ copyReqs' = copyReqs \ {r}
      /\ clipboard' = r.text
      /\ copyStatus' = "success"
      /\ copyTimers' = copyTimers \cup {r.id}
      /\ copyLog' = copyLog \cup {[id |-> r.id, written |-> TRUE, resolved |-> TRUE,
                                   legacy |-> FALSE]}
      /\ UNCHANGED <<copyError, textareas, nextCopy>>
      /\ UNCHANGED_copyPage

\* navigator.clipboard.writeText rejects: the catch.
CopyRejected ==
    \E r \in copyReqs, thrown \in ThrownMessages :
      /\ copyReqs' = copyReqs \ {r}
      /\ copyStatus' = "error"
      /\ copyError' = CopyErrorOf(thrown)
      /\ copyLog' = copyLog \cup {[id |-> r.id, written |-> FALSE, resolved |-> FALSE,
                                   legacy |-> FALSE]}
      /\ UNCHANGED <<clipboard, copyTimers, textareas, nextCopy>>
      /\ UNCHANGED_copyPage

\* setTimeout(() => setCopyStatus("idle"), 1500) fires.
CopyTimerFire ==
    \E t \in copyTimers :
      /\ copyTimers' = copyTimers \ {t}
      /\ copyStatus' = "idle"
      /\ UNCHANGED <<copyError, clipboard, copyReqs, textareas, copyLog, nextCopy>>
      /\ UNCHANGED_copyPage

\* The browsers the page may run in.
Browsers ==
    { [getUserMedia |-> FALSE, mediaRecorder |-> TRUE],
      [getUserMedia |-> TRUE, mediaRecorder |-> FALSE],
      [getUserMedia |-> TRUE, mediaRecorder |-> TRUE] }

InitBrowser(files, lim, resps, plans) ==
    /\ file = NoFile /\ status = "idle" /\ error = NoError
    /\ durationSeconds = NullNum /\ mode = "upload" /\ recordingState = "idle"
    /\ elapsedSeconds = 0 /\ previewUrl = NoUrl
    /\ isAnalyzing = FALSE /\ analyzeError = NoDisplayError /\ analyzeResult = NoMetrics
    /\ ruleRecs = 0 /\ plan = NoPlan /\ isCoaching = FALSE /\ coachError = NoDisplayError
    /\ media = InitMedia
    /\ now = Epoch
    /\ mounted = TRUE
    /\ caps \in Browsers
    /\ catalog = files
    /\ responses = resps
    /\ limits = lim
    /\ uploads = 0
    /\ liveUrls = {} /\ probes = {} /\ gumPending = {}
    /\ capturedPreview = [k \in Starts |-> NoUrl]
    /\ analyzeReqs = {} /\ coachReqs = {} /\ lastAnalyzeOk = NoMetrics
    /\ nextFile = 1 /\ nextStart = 1 /\ nextAnalyze = 1 /\ nextCoach = 1
    /\ copyStatus = "idle" /\ copyError = Absent
    /\ payloads = plans
    /\ clipboardApi \in BOOLEAN
    /\ clipboard = NoText /\ copyReqs = {} /\ copyTimers = {} /\ textareas = {}
    /\ copyLog = {} /\ nextCopy = 1

InitPage(files, lim, resps) ==
    InitBrowser(files, lim, resps, {CorePlan}) /\ clipboardApi = TRUE

InitWith(files, lim) == InitPage(files, lim, CoreResponses)

\* The upload path alone, for each file of AllFiles (every combination of name,
\* type, size and reported duration) as the file the user picks.
InitUpload ==
    /\ \E f \in AllFiles :
         InitWith({f}, [files |-> MaxUploads, starts |-> 0, analyze |-> 0, coach |-> 0])
    /\ caps = [getUserMedia |-> TRUE, mediaRecorder |-> TRUE]
NextUpload == SelectFile \/ ProbeDone \/ Reset
SpecUpload == InitUpload /\ [][NextUpload]_vars

\* The recorder alone: record mode with no file ever picked and no request
\* sent.
InitRec ==
    InitWith({}, [files |-> 0, starts |-> MaxRecStarts, analyze |-> 0, coach |-> 0])
NextRec ==
    \/ ProbeDone \/ Reset \/ ModeChange
    \/ StartUnsupported \/ StartRecording \/ GumResolve \/ GumReject
    \/ StopClick \/ AutoStopFire \/ SafetyFire \/ IntervalTick
    \/ DataAvailable \/ RecorderError \/ StopEvent \/ AdvanceTime
SpecRec == InitRec /\ [][NextRec]_vars

\* The requests alone, for each response of AllResponses as the answer of a
\* failing request.
InitApi ==
    /\ \E res \in AllResponses :
         InitPage({CHOOSE f \in CoreFiles : DurationCheck(f).ok /\ isLikelyAudioFile(f)},
                  [files |-> MaxFiles, starts |-> 0, analyze |-> MaxAnalyze,
                   coach |-> MaxCoach], {res})
    /\ caps = [getUserMedia |-> TRUE, mediaRecorder |-> TRUE]
NextApi ==
    \/ SelectFile \/ ProbeDone
    \/ AnalyzeClick \/ AnalyzeOk \/ AnalyzeFail
    \/ CoachClick \/ CoachOk \/ CoachFail
SpecApi == InitApi /\ [][NextApi]_vars

\* Copy report alone: one analysis and one plan, then clicks on Copy report
\* in a browser with and without navigator.clipboard.
GoodFile == CHOOSE f \in CoreFiles : DurationCheck(f).ok /\ isLikelyAudioFile(f)
InitCopy ==
    /\ InitBrowser({GoodFile}, [files |-> 1, starts |-> 0, analyze |-> 1, coach |-> 1],
                   CoreResponses, {CorePlan})
    /\ caps = [getUserMedia |-> TRUE, mediaRecorder |-> TRUE]
NextCopy ==
    \/ SelectFile \/ ProbeDone \/ Reset
    \/ AnalyzeClick \/ AnalyzeOk \/ CoachClick \/ CoachOk
    \/ CopyClick \/ CopyWritten \/ CopyRejected \/ CopyTimerFire
SpecCopy == InitCopy /\ [][NextCopy]_vars

\* The report alone, for each plan of AllPlans as the answer of /coach.
InitReport ==
    /\ \E p \in AllPlans :
         InitBrowser({GoodFile}, [files |-> 1, starts |-> 0, analyze |-> 1, coach |-> 1],
                     CoreResponses, {p})
    /\ caps = [getUserMedia |-> TRUE, mediaRecorder |-> TRUE]
    /\ clipboardApi = TRUE
NextReport ==
    \/ SelectFile \/ ProbeDone
    \/ AnalyzeClick \/ AnalyzeOk \/ CoachClick \/ CoachOk
    \/ CopyClick \/ CopyWritten
SpecReport == InitReport /\ [][NextReport]_vars

\* One upload and one recording with the page's scheduling: a pending
\* getUserMedia call is answered, pending duration probes end, armed timeouts
\* and interval timers fire once due, a recorder that was stopped delivers
\* its data and its stop event, and time goes on.  Nothing is assumed of the
\* user, who never presses Reset.
InitLive ==
    /\ InitWith({GoodFile}, [files |-> 1, starts |-> 1, analyze |-> 0, coach |-> 0])
    /\ caps = [getUserMedia |-> TRUE, mediaRecorder |-> TRUE]
NextLive ==
    \/ SelectFile \/ ProbeDone \/ ModeChange
    \/ StartRecording \/ GumResolve \/ GumReject
    \/ StopClick \/ AutoStopFire \/ SafetyFire \/ IntervalTick
    \/ DataAvailable \/ StopEvent \/ AdvanceTime
Scheduling ==
    /\ WF_vars(ProbeDone)
    /\ WF_vars(GumResolve \/ GumReject)
    /\ WF_vars(AutoStopFire)
    /\ WF_vars(SafetyFire)
    /\ WF_vars(IntervalTick)
    /\ WF_vars(DataAvailable)
    /\ WF_vars(StopEvent)
    /\ WF_vars(AdvanceTime)
SpecLive == InitLive /\ [][NextLive]_vars /\ Scheduling

\* Starting alone: Start clicks and the answers of getUserMedia, with the
\* Stop and Reset buttons.
InitStart ==
    InitWith({}, [files |-> 0, starts |-> MaxGumCalls, analyze |-> 0, coach |-> 0])
NextStart ==
    \/ Reset \/ ModeChange \/ StartUnsupported \/ StartRecording
    \/ GumResolve \/ GumReject \/ StopClick
SpecStart == InitStart /\ [][NextStart]_vars

(* ------------------------------------------------------------------ *)
(* The page                                                            *)
(* ------------------------------------------------------------------ *)
\* Sources: two selections of a valid file with one /analyze and one /coach.
InitSource ==
    /\ InitWith({GoodFile}, [files |-> MaxUploads, starts |-> 0, analyze |-> 1, coach |-> 1])
    /\ caps = [getUserMedia |-> TRUE, mediaRecorder |-> TRUE]
NextSource ==
    \/ SelectFile \/ ProbeDone \/ Reset
    \/ AnalyzeClick \/ AnalyzeOk \/ AnalyzeFail
    \/ CoachClick \/ CoachOk \/ CoachFail
SpecSource == InitSource /\ [][NextSource]_vars

\* Teardown: the page with one upload and one start, unmounted at any moment,
\* followed up to the completion of the probe and of the getUserMedia request
\* that were pending then.
InitTeardown ==
    /\ InitWith(CoreFiles, [files |-> MaxFiles, starts |-> MaxStarts, analyze |-> 0, coach |-> 0])
    /\ caps = [getUserMedia |-> TRUE, mediaRecorder |-> TRUE]
NextTeardown ==
    \/ SelectFile \/ ProbeDone \/ Reset \/ ModeChange
    \/ StartRecording \/ GumResolve \/ GumReject \/ Unmount
SpecTeardown == InitTeardown /\ [][NextTeardown]_vars
Init ==
    InitWith(CoreFiles, [files |-> MaxFiles, starts |-> MaxStarts,
                         analyze |-> MaxAnalyze, coach |-> MaxCoach])

\* The clicks on Copy report are left to SpecCopy and SpecReport: they read
\* plan and write only the copy state, which Reset clears.
Next ==
    \/ SelectFile \/ ProbeDone \/ Reset \/ ModeChange
    \/ StartUnsupported \/ StartRecording \/ GumResolve \/ GumReject
    \/ StopClick \/ AutoStopFire \/ SafetyFire \/ IntervalTick
    \/ DataAvailable \/ RecorderError \/ StopEvent \/ AdvanceTime
    \/ AnalyzeClick \/ AnalyzeOk \/ AnalyzeFail
    \/ CoachClick \/ CoachOk \/ CoachFail

Spec == Init /\ [][Next]_vars

(* ------------------------------------------------------------------ *)
(* Properties                                                          *)
(* ------------------------------------------------------------------ *)
\* The file picked under SpecUpload, whose catalog holds one file.
Picked == CHOOSE f \in catalog : TRUE

SameLetter(c, d) ==
    c = d \/ <<c, d>> \in { <<"W", "w">>, <<"A", "a">>, <<"V", "v">>, <<"M", "m">>,
                            <<"P", "p">> }
NameEndsIn(name, ext) ==
    /\ Len(name) >= Len(ext)
    /\ \A i \in 1..Len(ext) : SameLetter(name[Len(name) - Len(ext) + i], ext[i])
TypeAllowed(f) ==
    \/ NameEndsIn(f.name, <<".", "w", "a", "v">>)
    \/ NameEndsIn(f.name, <<".", "m", "p", "3">>)
    \/ NameEndsIn(f.name, <<".", "m", "4", "a">>)
    \/ (Len(f.type) >= 6 /\ \A i \in 1..6 : f.type[i] = <<"a", "u", "d", "i", "o", "/">>[i])
SizeAllowed(f) == f.size <= 10 * 1024 * 1024
\* v is bytes / 2^20 to the nearest hundredth (the larger one on a tie)
IsHundredthsOfMB(v, bytes) ==
    LET d == v * 1024 * 1024 - bytes * 100
    IN  2 * d <= 1024 * 1024 /\ 2 * d > -(1024 * 1024)
\* round(d * 10) for d = ms / 1000
RoundedTenths(ms) == CHOOSE n \in 0..2000 : 100 * n - 50 <= ms /\ ms < 100 * n + 50
\* the duration rounds to a tenth of a second within 15.0 .. 90.0
DurationAllowed(f) ==
    f.meta.kind = "ok" /\ f.meta.ms >= 14950 /\ f.meta.ms < 90050
PassedChecks(f) == TypeAllowed(f) /\ SizeAllowed(f) /\ DurationAllowed(f)

\* C1: Analyze is enabled only when status is "valid" and file, previewUrl
\* and durationSeconds are all set; the file state and every /analyze request
\* hold only a file that passed the type, size and 15-90 s duration checks,
\* whatever uploads, recordings and resets came before.
C1_AnalyzeOnlyValid ==
    /\ ~AnalyzeDisabled =>
         /\ status = "valid" /\ file # NoFile
         /\ previewUrl # NoUrl /\ durationSeconds # NullNum
    /\ file # NoFile => PassedChecks(file)
    /\ \A r \in analyzeReqs : r.file # NoFile /\ PassedChecks(r.file)
\* a recording is on its way to /analyze in a run in which a file was uploaded
C1_Witness ==
    /\ uploads > 0
    /\ \E r \in analyzeReqs : r.file.type = MimeWebm /\ r.file.id > 1

\* C2: Generate Plan is unavailable while analyzeResult is empty, and the
\* metrics of every /coach request sent are those returned by the most
\* recently completed successful /analyze.
C2_CoachAfterAnalyze ==
    [][ /\ analyzeResult = NoMetrics => CoachDisabled
        /\ \A r \in coachReqs' \ coachReqs :
             r.metrics # NoMetrics /\ r.metrics = lastAnalyzeOk ]_vars
\* a /coach request carrying the metrics of the second /analyze
C2_Witness == \E r \in coachReqs : r.metrics.id > 1

\* C3: at most one microphone stream is open at any time, and none is open
\* once recordingState is idle with no getUserMedia request pending.
C3_OneStream ==
    /\ Cardinality(media.streams) <= 1
    /\ (recordingState = "idle" /\ gumPending = {}) => media.streams = {}

\* C4: at most one /analyze request and at most one /coach request is in
\* flight at any time.
C4_OneInFlight == Cardinality(analyzeReqs) <= 1 /\ Cardinality(coachReqs) <= 1

\* C5: a file whose name does not end in .wav, .mp3 or .m4a (in any case) and
\* whose MIME type does not start with "audio/" ends validation with status
\* invalid and the reason "Invalid file type" and is never given to the
\* duration probe; a file with either property passes the type check.
C5_TypeCheck ==
    /\ \A p \in probes : TypeAllowed(p.file)
    /\ (~TypeAllowed(Picked) /\ status # "idle") =>
         /\ status = "invalid" /\ error = Err("Invalid file type")
         /\ file = NoFile /\ probes = {} /\ liveUrls = {}
    /\ TypeAllowed(Picked) => error.msg # "Invalid file type"
\* "a.wav.txt" with MIME type "audio" has been rejected
C5_Witness ==
    /\ Picked.name = <<"a", ".", "w", "a", "v", ".", "t", "x", "t">>
    /\ Picked.type = <<"a", "u", "d", "i", "o">>
    /\ status = "invalid" /\ error = Err("Invalid file type")

\* C6: a file that passes the type check and is larger than 10*1024*1024
\* bytes ends validation with status invalid and the size message carrying
\* its size in MB rounded to two decimals, and is never given to the duration
\* probe; a file of exactly 10*1024*1024 bytes is not rejected for its size.
C6_SizeCheck ==
    TypeAllowed(Picked) =>
      /\ \A p \in probes : SizeAllowed(p.file)
      /\ (~SizeAllowed(Picked) /\ status # "idle") =>
           /\ status = "invalid" /\ error.msg = "File too large"
           /\ IsHundredthsOfMB(error.val, Picked.size)
           /\ file = NoFile /\ probes = {} /\ liveUrls = {}
      /\ SizeAllowed(Picked) => error.msg # "File too large"
\* a file of 10.125 MB has been rejected as 10.13 MB
C6_Witness ==
    /\ Picked.size = 10616832
    /\ status = "invalid" /\ error = ErrVal("File too large", 1013)

\* C7: for a probed duration that is finite and positive, validation ends
\* valid exactly when round(d*10)/10 is within 15..90, with durationSeconds
\* that rounded value, and ends invalid otherwise, with a message that reports
\* the rounded value.
C7_DurationCheck ==
    LET n == RoundedTenths(Picked.meta.ms)
    IN  (/\ TypeAllowed(Picked) /\ SizeAllowed(Picked)
         /\ Picked.meta.kind = "ok" /\ Picked.meta.ms > 0) =>
          /\ status = "valid" =>
               /\ n >= 150 /\ n <= 900
               /\ durationSeconds = n /\ file # NoFile /\ file.meta = Picked.meta
          /\ status = "invalid" =>
               \/ n < 150 /\ error = ErrVal("File too short", n)
               \/ n > 900 /\ error = ErrVal("File too long", n)
\* a file of 90.05 s has been rejected as 90.1 s long
C7_Witness ==
    /\ Picked.meta = [kind |-> "ok", ms |-> 90050]
    /\ status = "invalid" /\ error = ErrVal("File too long", 901)

\* C8: while a recording runs, the auto-stop of its recorder is armed for 90 s
\* after its start, so that the recording is stopped and handed on when the
\* maximum elapses with no manual stop; elapsedSeconds never exceeds 90.
C8_AutoStop ==
    /\ elapsedSeconds <= MAX_SECONDS
    /\ recordingState = "recording" =>
         \E t \in media.timeouts :
           /\ t.kind = "auto" /\ t.id = media.mediaRecorderRef
           /\ t.due = media.recordingStartMsRef + Ticks(90 * 1000)
           /\ media.recState[t.id] = "recording" /\ t.id \in media.handlers

\* C9: the stop-completion handler assembles and validates the capture of a
\* recording at most once, however many stop events its recorder delivers.
C9_StopOnce == \A k \in Starts : media.onstopRuns[k] <= 1

\* C10: when startRecording fails (no getUserMedia, no MediaRecorder, or the
\* getUserMedia request is rejected), recordingState is idle, an error message
\* is set, and no stream, recorder, timer or level meter is left held.
C10_FailsClosed ==
    [][ (GumReject \/ StartUnsupported) =>
          /\ recordingState' = "idle" /\ error' # NoError
          /\ media'.streams = {} /\ media'.intervals = {}
          /\ media'.timeouts = {} /\ media'.meters = {}
          /\ \A k \in Starts : media'.recState[k] # "recording" ]_vars

\* The page's audio, validation and analysis state is what reset() leaves.
IsResetState ==
    /\ file = NoFile /\ status = "idle" /\ error = NoError
    /\ durationSeconds = NullNum /\ previewUrl = NoUrl
    /\ recordingState = "idle" /\ elapsedSeconds = 0
    /\ analyzeResult = NoMetrics /\ analyzeError = NoDisplayError /\ ~isAnalyzing
    /\ ruleRecs = 0 /\ plan = NoPlan /\ coachError = NoDisplayError /\ ~isCoaching
    /\ media.mediaRecorderRef = 0 /\ media.streamRef = 0 /\ media.chunksRef = 0
    /\ media.timerIntervalRef = 0 /\ media.autoStopTimeoutRef = 0
    /\ media.stopSafetyTimeoutRef = 0 /\ media.rafIdRef = 0
    /\ ~media.stopHandledRef /\ media.recordingStartMsRef = 0

\* C11: the mode changes only from a state with recordingState idle, a mode
\* request in any other state changes nothing, and a mode change leaves the
\* audio, validation and analysis state reset (the old preview URL revoked).
C11_ModeChange ==
    [][ /\ mode' # mode => recordingState = "idle"
        /\ (mode' # mode \/ ModeChange) =>
             IsResetState' /\ (previewUrl # NoUrl => previewUrl \notin liveUrls')
        /\ recordingState # "idle" => ~ENABLED ModeChange ]_vars
\* record mode was entered after an upload, with its /analyze still in flight
C11_Witness ==
    /\ mode = "record" /\ uploads > 0 /\ IsResetState
    /\ analyzeReqs # {} /\ nextStart = 1

\* The answer every failing request gets under SpecApi, whose responses hold
\* one response.
Served == CHOOSE res \in responses : TRUE
BodyReceived(res) == res.body.readable
ParsesAsJson(res) == BodyReceived(res) /\ res.body.json # "none"
\* an error code is a non-empty string; a key holding "" carries none
IsErrorCode(c) == c # Absent /\ c # ""
CarriesErrorCode(res) ==
    /\ ParsesAsJson(res) /\ res.body.json = "object"
    /\ \/ IsErrorCode(res.body.error_code)
       \/ res.body.detail.kind = "object" /\ IsErrorCode(res.body.detail.error_code)
PayloadOf(res) ==
    IF IsErrorCode(res.body.error_code)
    THEN [error_code |-> res.body.error_code, user_message |-> res.body.user_message]
    ELSE [error_code |-> res.body.detail.error_code,
          user_message |-> res.body.detail.user_message]
\* what the page shows for a failed request that was answered by res
Surfaces(shown, res) ==
    IF CarriesErrorCode(res)
    THEN /\ shown.error_code = PayloadOf(res).error_code
         /\ PayloadOf(res).user_message # Absent =>
              shown.user_message = Lit(PayloadOf(res).user_message)
    ELSE /\ shown.error_code = Absent
         /\ shown.user_message.http = res.status

C12_WitnessGeneric ==
    /\ ~CarriesErrorCode(Served) /\ BodyReceived(Served)
    /\ analyzeError # NoDisplayError /\ analyzeError.user_message.http = 422

(* ------------------------------------------------------------------ *)
(* The report (SpecReport: payloads holds the one plan /coach answers) *)
(* ------------------------------------------------------------------ *)
Offered == CHOOSE p \in payloads : TRUE
\* every report text the page has produced: handed to writeText, or written
Reports ==
    { r.text : r \in copyReqs } \cup (IF clipboard = NoText THEN {} ELSE {clipboard})

\* the lines of a text that ends in a line break
RECURSIVE Lines(_)
Lines(text) ==
    IF text = <<>> THEN <<>>
    ELSE LET k == CHOOSE i \in 1..Len(text) + 1 :
                    /\ i = Len(text) + 1 \/ text[i] = NL
                    /\ \A j \in 1..i - 1 : text[j] # NL
         IN  <<SubSeq(text, 1, k - 1)>> \o Lines(SubSeq(text, k + 1, Len(text)))

EndsWithOneNewline(text) ==
    /\ Len(text) >= 2
    /\ text[Len(text)] = NL
    /\ text[Len(text) - 1] # NL

IsEmptyList(list) == ~list.given \/ list.items = <<>>
Rendered(p) == LET all == ItemsOf(p.drills) IN SubSeq(all, 1, Min(3, Len(all)))
\* the heading at line i is directly followed by the line "- (none)"
NoneUnder(lines, i) == i + 1 <= Len(lines) /\ lines[i + 1] = <<"-", SP, "(none)">>
\* the first line of the section of drill k, and the first line at or after
\* line i that is the given heading
DrillLine(lines, k) ==
    CHOOSE i \in 1..Len(lines) :
      Len(lines[i]) >= 4 /\ SubSeq(lines[i], 1, 4) = <<"Drill", SP, Ordinal(k), ":">>
HeadingFrom(lines, i, heading) ==
    CHOOSE j \in i..Len(lines) :
      lines[j] = <<heading>> /\ \A h \in i..j - 1 : lines[h] # <<heading>>
HasHeading(lines, heading) == \E i \in 1..Len(lines) : lines[i] = <<heading>>

NoneLinesIn(text, p) ==
    LET lines == Lines(text)
        s == p.summary
    IN  /\ (~s.given \/ IsEmptyList(s.evidence)) =>
              /\ HasHeading(lines, "Evidence:")
              /\ NoneUnder(lines, HeadingFrom(lines, 1, "Evidence:"))
        /\ \A k \in 1..Len(Rendered(p)) :
              LET d == Rendered(p)[k]
                  at == DrillLine(lines, k)
              IN  /\ IsEmptyList(d.instructions) =>
                        NoneUnder(lines, HeadingFrom(lines, at, "Instructions:"))
                  /\ IsEmptyList(d.success_criteria) =>
                        NoneUnder(lines, HeadingFrom(lines, at, "Success criteria:"))

\* C13: every report ends with exactly one line break, and every evidence,
\* instructions and success-criteria list that is empty or missing is the
\* line "- (none)" directly under its heading.
C13_NoneLines ==
    \A text \in Reports : EndsWithOneNewline(text) /\ NoneLinesIn(text, Offered)
\* a report was written for a plan without a summary and without a
\* disclaimer, whose last drill has neither instructions nor success criteria
C13_Witness ==
    /\ clipboard # NoText
    /\ ~Offered.summary.given
    /\ Rendered(Offered) = <<BareDrill>>
    /\ ~Truthy(Offered.disclaimer)

HasLine(lines, line) == \E i \in 1..Len(lines) : lines[i] = line
Shown(v, placeholder) == IF v = Absent THEN placeholder ELSE v
Piece(v) == IF v = "" THEN <<>> ELSE <<v>>
SummaryField(p, name) ==
    IF ~p.summary.given THEN Absent
    ELSE IF name = "primary_issue" THEN p.summary.primary_issue ELSE p.summary.confidence
\* the fields that have a line of their own, with "N/A" for an absent one
ScalarLinesIn(lines, p) ==
    /\ HasLine(lines, <<"Primary issue:", SP>>
                        \o Piece(Shown(SummaryField(p, "primary_issue"), "N/A")))
    /\ HasLine(lines, <<"Confidence:", SP>>
                        \o Piece(Shown(SummaryField(p, "confidence"), "N/A")))
    /\ HasLine(lines, <<"Practice Plan (Total:", SP>>
                        \o Piece(Shown(p.total_minutes, "N/A")) \o <<SP, "minutes)">>)
\* the name and the duration in the first line of each drill
DrillHead(d, k) ==
    <<"Drill", SP, Ordinal(k), ":", SP>>
      \o <<IF d.name \in {Absent, ""} THEN "Untitled" ELSE d.name>>
      \o <<SP, "(">>
      \o <<IF d.duration_min # Absent THEN d.duration_min
           ELSE IF d.minutes # Absent THEN d.minutes ELSE "(unspecified)">>
      \o <<SP, "min">>
DrillHeadsIn(lines, p) ==
    \A k \in 1..Len(Rendered(p)) :
      LET line == lines[DrillLine(lines, k)]
          head == DrillHead(Rendered(p)[k], k)
      IN  Len(line) >= Len(head) /\ SubSeq(line, 1, Len(head)) = head
\* what follows the duration in the first line of drill k
DrillTail(lines, p, k) ==
    LET line == lines[DrillLine(lines, k)]
    IN  SubSeq(line, Len(DrillHead(Rendered(p)[k], k)) + 1, Len(line))
PlaceholdersIn(text, p) ==
    /\ EndsWithOneNewline(text)
    /\ ScalarLinesIn(Lines(text), p)
    /\ DrillHeadsIn(Lines(text), p)
    /\ NoneLinesIn(text, p)

\* C14 as stated: every plan payload gets a report in which every optional
\* field has its line, with a placeholder when the field is absent; the
\* tempo of each drill and the disclaimer are such fields.
C14_EveryFieldHasLine ==
    \A text \in Reports :
      /\ PlaceholdersIn(text, Offered)
      /\ \A k \in 1..Len(Rendered(Offered)) :
            LET tail == DrillTail(Lines(text), Offered, k)
            IN  Len(tail) = 6 /\ tail[5] = "bpm"
      /\ HasHeading(Lines(text), "Disclaimer:")

\* C14, amended: every plan payload gets a report; an absent primary issue,
\* confidence or total is "N/A", an absent or empty drill name "Untitled", an
\* absent duration "(unspecified)", an empty or missing list "- (none)".  An
\* absent tempo leaves ", N bpm" out of its drill's line, and the disclaimer
\* section is there exactly when the disclaimer is a non-empty string.
C14_Placeholders ==
    \A text \in Reports :
      /\ PlaceholdersIn(text, Offered)
      /\ \A k \in 1..Len(Rendered(Offered)) :
            LET tempo == Rendered(Offered)[k].tempo_bpm
            IN  DrillTail(Lines(text), Offered, k) =
                  IF tempo = Absent THEN <<")">>
                  ELSE <<",", SP, tempo, SP, "bpm", ")">>
      /\ HasHeading(Lines(text), "Disclaimer:") <=> Offered.disclaimer \notin {Absent, ""}
\* a report was written for a plan with no summary, total or disclaimer and
\* one drill that has only a name
C14_Witness ==
    /\ clipboard # NoText
    /\ ~Offered.summary.given /\ Offered.total_minutes = Absent
    /\ Offered.disclaimer = Absent
    /\ Offered.drills = List(<<BareDrill>>)
\* a report was written for a drill with no name, duration or tempo
C14_WitnessDrill ==
    /\ clipboard # NoText
    /\ Len(Rendered(Offered)) = 1
    /\ Rendered(Offered)[1].name = Absent /\ Rendered(Offered)[1].tempo_bpm = Absent
    /\ Rendered(Offered)[1].duration_min = Absent /\ Rendered(Offered)[1].minutes = Absent

StartsWithPiece(line, piece) == Len(line) >= 1 /\ line[1] = piece
FirstLine(lines, piece) ==
    CHOOSE i \in 1..Len(lines) :
      StartsWithPiece(lines[i], piece) /\ \A j \in 1..i - 1 : ~StartsWithPiece(lines[j], piece)
HasSection(lines, piece) == \E i \in 1..Len(lines) : StartsWithPiece(lines[i], piece)
EvidenceOf(p) == IF p.summary.given THEN ItemsOf(p.summary.evidence) ELSE <<>>

SectionsInOrder(text, p) ==
    LET lines == Lines(text)
        all == ItemsOf(p.drills)
        n == Min(3, Len(all))
        ev == EvidenceOf(p)
        iSummary == FirstLine(lines, "Summary")
        iIssue == FirstLine(lines, "Primary issue:")
        iConfidence == FirstLine(lines, "Confidence:")
        iEvidence == FirstLine(lines, "Evidence:")
        iPlan == FirstLine(lines, "Practice Plan (Total:")
        drillLines == { i \in 1..Len(lines) : StartsWithPiece(lines[i], "Drill") }
    IN  /\ lines[1] = <<"Guitar AI Coach Report">>
        /\ \A piece \in {"Summary", "Primary issue:", "Confidence:", "Evidence:",
                         "Practice Plan (Total:"} : HasSection(lines, piece)
        /\ 1 < iSummary /\ iSummary < iIssue /\ iIssue < iConfidence
        /\ iConfidence < iEvidence /\ iEvidence + Len(ev) < iPlan
        /\ \A j \in 1..Len(ev) : lines[iEvidence + j] = <<"-", SP>> \o Piece(ev[j])
        \* exactly the first min(3, n) drills, in their order, numbered from 1
        /\ Cardinality(drillLines) = n
        /\ \A k \in 1..n :
              LET at == DrillLine(lines, k)
                  head == DrillHead(all[k], k)
              IN  /\ at > iPlan
                  /\ Len(lines[at]) >= Len(head) /\ SubSeq(lines[at], 1, Len(head)) = head
                  /\ k > 1 => DrillLine(lines, k - 1) < at
        \* the disclaimer only if there is one, and after everything else
        /\ HasSection(lines, "Disclaimer:") =>
              /\ p.disclaimer # Absent
              /\ FirstLine(lines, "Disclaimer:") > iPlan
              /\ \A i \in drillLines : i < FirstLine(lines, "Disclaimer:")
              /\ FirstLine(lines, "Disclaimer:") >= Len(lines) - 1
              /\ Len(lines) > FirstLine(lines, "Disclaimer:") =>
                    lines[Len(lines)] = <<p.disclaimer>>

\* C15: the report has its sections in the order title, summary (primary
\* issue, confidence, evidence bullets), practice plan, disclaimer; the
\* practice plan holds exactly the first min(3, n) drills of the plan, in
\* their order and numbered from 1; the disclaimer section is last and is
\* there only if the plan has a disclaimer.
C15_SectionOrder == \A text \in Reports : SectionsInOrder(text, Offered)
\* a report was written for a plan of four drills, not all the same, and a
\* disclaimer
C15_Witness ==
    /\ clipboard # NoText
    /\ Len(ItemsOf(Offered.drills)) = 4
    /\ ItemsOf(Offered.drills)[1] # ItemsOf(Offered.drills)[2]
    /\ ItemsOf(Offered.drills)[4] # ItemsOf(Offered.drills)[3]
    /\ Truthy(Offered.disclaimer)

(* ------------------------------------------------------------------ *)
(* Copy report (SpecCopy)                                              *)
(* ------------------------------------------------------------------ *)
\* C16: the temporary textarea of the fallback path is removed from the
\* document on every path: the legacy copy succeeds, it returns false, or
\* selecting or copying throws.
C16_TextareaRemoved == textareas = {}

\* C17: copyToClipboard resolves only when the text was written; when the
\* write is rejected, or the legacy copy returns false or throws, it rejects
\* and the click ends with copyStatus = "error" and a message, never with
\* "success".
C17_CopyOutcome ==
    [][ \A e \in copyLog' \ copyLog :
          /\ e.resolved => e.written /\ clipboard' # NoText
          /\ ~e.written =>
                /\ ~e.resolved
                /\ copyStatus' = "error"
                /\ copyError' \notin {Absent, ""} ]_vars
\* one copy was written and another one failed in the fallback, which is
\* what the page shows
C17_Witness ==
    /\ \E e \in copyLog : e.written
    /\ \E e \in copyLog : ~e.written /\ e.legacy
    /\ copyStatus = "error" /\ copyError = "Copy failed"
\* a write that was handed to navigator.clipboard was rejected
C17_WitnessModern ==
    /\ \E e \in copyLog : ~e.written /\ ~e.legacy
    /\ copyStatus = "error" /\ copyError = "Write permission denied."

(* ------------------------------------------------------------------ *)
(* Short recordings (SpecRec)                                          *)
(* ------------------------------------------------------------------ *)
TooShortShown ==
    /\ status = "invalid"
    /\ file = NoFile
    /\ durationSeconds = NullNum
    /\ previewUrl = NoUrl
    /\ error = Err("Recording too short")
    /\ recordingState = "idle"

\* C18: a recording whose measured length is under MIN_SECONDS still goes
\* through validateAndSetFile, and when its onstop handler finishes the page
\* has status invalid, no file, no duration, no preview URL (the one
\* validation created is revoked), the "Recording too short" error and
\* recordingState idle.
C18_TooShort ==
    [][ \A p \in probes \ probes' :
          p.origin = "recordShort" =>
            /\ TooShortShown'
            /\ PreviewUrlOf(p.file) \notin liveUrls'
            /\ ProbeUrl(p.file) \notin liveUrls' ]_vars
\* the page after a recording that was stopped early and whose file had
\* passed validation
C18_Witness ==
    /\ TooShortShown
    /\ elapsedSeconds > 0 /\ elapsedSeconds < MIN_SECONDS
    /\ probes = {} /\ nextFile > 1
    /\ \E k \in Starts : media.onstopRuns[k] > 0

(* ------------------------------------------------------------------ *)
(* Progress (SpecLive)                                                 *)
(* ------------------------------------------------------------------ *)
Busy ==
    \/ recordingState \in {"recording", "processing"}
    \/ status = "validating"
    \/ isAnalyzing \/ isCoaching
Actionable ==
    /\ recordingState = "idle"
    /\ status \in {"idle", "valid", "invalid"}
    /\ ~isAnalyzing /\ ~isCoaching

\* C19: from every state in which the page is recording or processing,
\* validating, analyzing or coaching, it comes to recordingState idle, a
\* status of idle, valid or invalid and both busy flags false, with timers
\* firing and pending callbacks completing and whatever the user does.
C19_BackToActionable == Busy ~> Actionable

(* ------------------------------------------------------------------ *)
(* Overlapping selections (SpecUpload)                                 *)
(* ------------------------------------------------------------------ *)
LatestSelection == nextFile - 1

\* C20: a new selection clears the previous file, duration and error before
\* its validation starts, and once every pending validation has completed,
\* file, status, durationSeconds, error and previewUrl are those of the
\* latest selection, also when it was made while the probe of an earlier one
\* was pending.
C20_LatestSelectionOwns ==
    [][ /\ uploads' > uploads =>
             /\ file' = NoFile /\ durationSeconds' = NullNum
             /\ status' = "validating" => error' = NoError
        /\ (probes # {} /\ probes' = {}) =>
             /\ file' # NoFile => file'.id = LatestSelection'
             /\ previewUrl' # NoUrl => previewUrl'.file = LatestSelection'
             /\ status' = "valid" => file' # NoFile ]_vars

(* ------------------------------------------------------------------ *)
(* The stop watchdog                                                   *)
(* ------------------------------------------------------------------ *)
SafetyTimeouts(m) == { t \in m.timeouts : t.kind = "safety" }
\* recorder k was stopped by stopRecording and its onstop has not run
StopRequested(k) ==
    /\ recordingState = "processing"
    /\ media.mediaRecorderRef = k /\ k # 0
    /\ media.recState[k] = "inactive"
    /\ media.onstopRuns[k] = 0
\* the safety timeout of recorder k falls due and fires
WatchdogFires(k) ==
    /\ SafetyFire
    /\ \E t \in SafetyTimeouts(media) \ SafetyTimeouts(media') : t.id = k

\* C21: after a stop request the watchdog is armed for 1.5 s later as long
\* as the recorder's stop callback has not run; when it fires before that
\* callback, recordingState goes back to idle, an error is set and the
\* stream of the recording is released; once the stop callback has run the
\* watchdog is cancelled and does nothing.
C21_Watchdog ==
    [][ \A k \in Starts :
          /\ StopRequested(k)' =>
                \E t \in SafetyTimeouts(media') :
                  t.id = k /\ t.due <= now' + Ticks(SafetyTimeoutMs)
          /\ (WatchdogFires(k) /\ media.onstopRuns[k] = 0) =>
                /\ recordingState' = "idle"
                /\ error' # NoError
                /\ k \notin media'.streams
          /\ media'.onstopRuns[k] > media.onstopRuns[k] =>
                \A t \in SafetyTimeouts(media') : t.id # k
          /\ (WatchdogFires(k) /\ media.onstopRuns[k] > 0) =>
                UNCHANGED <<recordingState, error>> ]_vars

(* ------------------------------------------------------------------ *)
(* recordingState                                                      *)
(* ------------------------------------------------------------------ *)
AllowedMoves ==
    { <<"idle", "recording">>, <<"recording", "processing">>,
      <<"processing", "idle">>, <<"recording", "idle">> }

\* C22: recordingState changes only from idle to recording (a start that
\* succeeded), from recording to processing (a stop request), from
\* processing to idle (stop completion or watchdog) or to idle (reset or
\* error); never from idle to processing nor from processing to recording.
C22_Moves ==
    [][ /\ recordingState' # recordingState =>
             <<recordingState, recordingState'>> \in AllowedMoves
        /\ (recordingState = "idle" /\ recordingState' = "recording") => GumResolve
        /\ (recordingState = "recording" /\ recordingState' = "processing") =>
             StopClick \/ AutoStopFire ]_vars

(* ------------------------------------------------------------------ *)
(* object URLs                                                         *)
(* ------------------------------------------------------------------ *)
LivePreviews == { u \in liveUrls : u.kind = "preview" }
LiveProbes == { u \in liveUrls : u.kind = "probe" }

\* C23: at most one preview object URL is un-revoked at any time and it is
\* the one held in previewUrl; a preview URL that leaves previewUrl (replaced
\* by a newer validated source, or cleared by reset) is revoked; and while
\* status is valid, previewUrl is an un-revoked preview URL, not a probe URL.
C23_OnePreview ==
    /\ [](/\ LivePreviews \subseteq {previewUrl}
          /\ status = "valid" => previewUrl \in LivePreviews)
    /\ [][ (previewUrl' # previewUrl /\ previewUrl # NoUrl) =>
               previewUrl \notin liveUrls' ]_vars
\* a second validated file has replaced the first one's preview
C23_Witness ==
    /\ status = "valid"
    /\ previewUrl.kind = "preview" /\ previewUrl.file = 2
    /\ file.id = 2 /\ uploads = 2 /\ probes = {}
    /\ liveUrls = {previewUrl}

\* C24: a probe URL is un-revoked only while the validation that created it
\* is still waiting for the probe: once validateAndSetFile has returned, on
\* loadedmetadata or on error, with a valid or an invalid verdict, its probe
\* URL is revoked.
C24_ProbeRevoked ==
    /\ [](LiveProbes = { ProbeUrl(p.file) : p \in probes })
    /\ [][ \A p \in probes \ probes' : ProbeUrl(p.file) \notin liveUrls' ]_vars
\* a validation has returned after its probe ended with the error event
C24_Witness ==
    /\ status = "invalid"
    /\ error = Err("Could not read audio duration")
    /\ \E f \in catalog : f.meta.kind = "error"
    /\ probes = {}
    /\ uploads > 0

(* ------------------------------------------------------------------ *)
(* teardown                                                            *)
(* ------------------------------------------------------------------ *)
Released ==
    /\ media.intervals = {}
    /\ media.timeouts = {}
    /\ media.meters = {}
    /\ media.streams = {}
    /\ \A k \in Starts : media.recState[k] # "recording"
    /\ liveUrls \subseteq { ProbeUrl(p.file) : p \in probes }

\* C25: once the page is unmounted no elapsed-time timer, auto-stop or safety
\* timeout or animation-frame callback is armed, no microphone stream or
\* active recorder is left and no object URL is un-revoked other than the
\* probe URL of a validation still waiting; and an operation that was pending
\* at teardown leaves nothing behind when it completes.
C25_Teardown ==
    /\ [](~mounted => Released)
    /\ [][ (~mounted /\ (probes' # probes \/ gumPending' # gumPending)) =>
             (media'.streams = {} /\ liveUrls' \subseteq liveUrls) ]_vars

(* ------------------------------------------------------------------ *)
(* operations in flight across a reset                                 *)
(* ------------------------------------------------------------------ *)
\* The fields reset() empties, as it leaves them.  status is set to idle by
\* reset() alone and every acquisition moves it on (a selection to validating
\* or invalid, a recording's onstop likewise), and /analyze and /coach are
\* sent only for a valid file: so in a cleared state every pending
\* validation, /analyze and /coach was started before the reset, and so was
\* a getUserMedia request that is pending in upload mode.
Cleared ==
    /\ file = NoFile /\ status = "idle" /\ previewUrl = NoUrl
    /\ analyzeResult = NoMetrics /\ plan = NoPlan /\ recordingState = "idle"
StaleCompletion ==
    \/ probes' # probes /\ probes' \subseteq probes
    \/ analyzeReqs' # analyzeReqs /\ analyzeReqs' \subseteq analyzeReqs
    \/ coachReqs' # coachReqs /\ coachReqs' \subseteq coachReqs
    \/ mode = "upload" /\ gumPending' # gumPending /\ gumPending' \subseteq gumPending

\* C26: once reset() has cleared the page, the completion of an operation
\* that was already in flight (a validation, an /analyze or /coach request, a
\* getUserMedia request) leaves file, status, previewUrl, analyzeResult, plan
\* and recordingState cleared.
C26_StaysCleared ==
    [][ (mounted /\ Cleared /\ StaleCompletion) => Cleared' ]_vars

(* ------------------------------------------------------------------ *)
(* analysis results and the active source                              *)
(* ------------------------------------------------------------------ *)
\* C27: a non-empty analyzeResult was returned by an /analyze request made
\* for the file now held as the active source, and acquiring another source
\* (a file selection, a new recording) clears analyzeResult, the rule
\* recommendations and the plan.
C27_ResultOfActiveSource ==
    /\ [](analyzeResult # NoMetrics => (file # NoFile /\ analyzeResult.file = file.id))
    /\ [][ (SelectFile \/ StartRecording) =>
             (analyzeResult' = NoMetrics /\ ruleRecs' = 0 /\ plan' = NoPlan) ]_vars

\* C28: a displayed plan is the response to a /coach request whose metrics
\* are the analyzeResult now held, which is then non-empty.
C28_PlanOfCurrentMetrics ==
    plan # NoPlan => (analyzeResult # NoMetrics /\ plan.metrics = analyzeResult)

(* ------------------------------------------------------------------ *)
(* stop completion after the watchdog                                  *)
(* ------------------------------------------------------------------ *)
\* The page as the stop watchdog leaves it.
WatchdogForcedIdle ==
    recordingState = "idle" /\ error = Err("Auto-stop failed")

\* C29: a stop event delivered after the watchdog has forced recordingState
\* to idle with its error is not processed: no file is assembled, no
\* validation runs, and status and error stay as they are.
C29_LateStopIgnored ==
    [][ (WatchdogForcedIdle /\ StopEvent) =>
          /\ UNCHANGED <<status, error, file, probes, nextFile>>
          /\ media'.onstopRuns = media.onstopRuns ]_vars

(* ------------------------------------------------------------------ *)
(* recording and the selected mode                                     *)
(* ------------------------------------------------------------------ *)
\* C30: while recordingState is recording or processing the record mode is
\* selected, whatever the order of Start, mode switches and the completion of
\* getUserMedia.
C30_RecordsInRecordMode ==
    recordingState \in {"recording", "processing"} => mode = "record"

====
